---------------------------- MODULE Spec2Model ----------------------------
(***************************************************************************)
(* A model of the native core of Cloud-Nexus (src/native/src):             *)
(*   - the encrypted container format and the whole-file / per-chunk       *)
(*     AES-256-GCM routines of lib.rs and encryption.rs,                   *)
(*   - the transfer engines of upload.rs, download.rs, copy.rs and         *)
(*     unified_copy.rs.                                                    *)
(* Byte buffers are sequences of 0..255 (1-based: Rust's buf[a..b] is      *)
(* SubSeq(buf, a+1, b)).  A null pointer / None / Err is the record Null.  *)
(***************************************************************************)
EXTENDS Integers, Sequences, FiniteSets, TLC

(***************************************************************************)
(* Program constants (lib.rs:46-53, file_io.rs:14-22).                     *)
(***************************************************************************)
MAGIC == 1129203026
VERSION == 1
NONCE_SIZE == 12
MAC_SIZE == 16
KEY_SIZE == 32
HEADER_SIZE == 12
FRAME_HEADER_SIZE == 20

SUCCESS == 0
ERROR_NULL_POINTER == -1
ERROR_FILE_NOT_FOUND == -2
ERROR_PERMISSION_DENIED == -3
ERROR_INVALID_PATH == -5
ERROR_IO_FAILED == -6
ERROR_CANCELLED == -7
UNIFIED_ERROR_CANCELLED == -10

(***************************************************************************)
(* Bounds of the model.  DEFAULT_CHUNK_SIZE is the 1 MiB plaintext chunk   *)
(* of the source scaled down to a few bytes, so that files of MaxFileLen   *)
(* bytes span several chunks and end in a partial one.                     *)
(***************************************************************************)
DEFAULT_CHUNK_SIZE == 2
MaxFileLen == 5

(***************************************************************************)
(* Bytes and little-endian words.                                          *)
(***************************************************************************)
Null == [ok |-> FALSE, data |-> <<>>]
Some(d) == [ok |-> TRUE, data |-> d]

Min(a, b) == IF a <= b THEN a ELSE b
Max(a, b) == IF a >= b THEN a ELSE b

Repeat(b, n) == [i \in 1..n |-> b]

\* A u32 whose top bit is set does not fit a TLC integer: it is represented
\* by U32Big, which exceeds every length of the model and differs from MAGIC.
U32Big == 2147483647 - 65536

\* u32::to_le_bytes
LeBytes32(n) == <<n % 256, (n \div 256) % 256, (n \div 65536) % 256, (n \div 16777216) % 256>>

\* u32::from_le_bytes
FromLe32(b) ==
    IF b[4] >= 128 THEN U32Big
    ELSE b[1] + 256 * b[2] + 65536 * b[3] + 16777216 * b[4]

RECURSIVE SeqSum(_)
SeqSum(s) == IF s = <<>> THEN 0 ELSE s[1] + SeqSum(Tail(s))

(***************************************************************************)
(* AES-256-GCM (the aes_gcm crate, a dependency of the repository) by its  *)
(* contract: the ciphertext is the plaintext under a key- and nonce-       *)
(* dependent stream followed by a MAC_SIZE-byte tag over key, nonce and    *)
(* ciphertext; decryption recomputes the tag and rejects any mismatch.     *)
(***************************************************************************)
Mix(key, nonce) == (SeqSum(key) + 7 * SeqSum(nonce)) % 256

Pick(s, i) == IF i <= Len(s) THEN s[i] ELSE 0

GcmBody(key, nonce, pt) ==
    LET m == Mix(key, nonce)
    IN  [i \in 1..Len(pt) |-> (pt[i] + m + 13 * i) % 256]

\* The tag covers the key, the nonce, the length and every byte of a
\* ciphertext of up to 39 bytes (the model's longest is the 32-byte FEK).
GcmTag(key, nonce, ct) ==
    LET k == SeqSum(key) % 256
        n == SeqSum(nonce) % 256
    IN  [j \in 1..MAC_SIZE |->
            CASE j = 1 -> k
              [] j = 2 -> n
              [] j = 3 -> Len(ct) % 256
              [] OTHER -> (Pick(ct, j - 3) + Pick(ct, j + 10) + Pick(ct, j + 23)
                           + 3 * j) % 256]

\* cipher.encrypt(nonce, data): ciphertext followed by the tag; Null when
\* the key is not KEY_SIZE bytes (Aes256Gcm::new_from_slice fails).
GcmEncrypt(key, nonce, pt) ==
    IF Len(key) # KEY_SIZE THEN Null
    ELSE LET ct == GcmBody(key, nonce, pt)
         IN  Some(ct \o GcmTag(key, nonce, ct))

\* cipher.decrypt(nonce, content): the plaintext, or Null on a bad tag.
GcmDecrypt(key, nonce, content) ==
    IF Len(key) # KEY_SIZE \/ Len(content) < MAC_SIZE THEN Null
    ELSE LET n   == Len(content) - MAC_SIZE
             ct  == SubSeq(content, 1, n)
             tag == SubSeq(content, n + 1, Len(content))
             m   == Mix(key, nonce)
         IN  IF tag # GcmTag(key, nonce, ct) THEN Null
             ELSE Some([i \in 1..n |-> (ct[i] + 512 - m - ((13 * i) % 256)) % 256])

(***************************************************************************)
(* Container format (lib.rs:464-520).                                      *)
(***************************************************************************)
\* wrap_key: nonce || ciphertext-with-tag, or the empty vector on failure.
wrap_key(key, master_key, nonce) ==
    LET ct == GcmEncrypt(master_key, nonce, key)
    IN  IF ct.ok THEN nonce \o ct.data ELSE <<>>

unwrap_key(wrapped_key, master_key) ==
    IF Len(wrapped_key) < NONCE_SIZE + MAC_SIZE THEN Null
    ELSE GcmDecrypt(master_key,
                    SubSeq(wrapped_key, 1, NONCE_SIZE),
                    SubSeq(wrapped_key, NONCE_SIZE + 1, Len(wrapped_key)))

build_header(fek_length) ==
    LeBytes32(MAGIC) \o <<VERSION>> \o <<0, 0, 0>> \o LeBytes32(fek_length)

parse_header(header) ==
    IF Len(header) < HEADER_SIZE THEN Null
    ELSE Some([magic      |-> FromLe32(SubSeq(header, 1, 4)),
               version    |-> header[5],
               fek_length |-> FromLe32(SubSeq(header, 9, 12))])

(***************************************************************************)
(* Per-chunk framing (lib.rs:793-859).                                     *)
(***************************************************************************)
\* The mutant writes the size "excluding MAC" that the format comment of
\* lib.rs:530 describes.
encrypt_chunk_impl_SizeWithoutMac(data, fek, chunk_index, nonce) ==
    LET ct == GcmEncrypt(fek, nonce, data)
    IN  IF ~ct.ok THEN Null
        ELSE Some(LeBytes32(chunk_index) \o LeBytes32(Len(ct.data) - MAC_SIZE)
                  \o nonce \o ct.data)

encrypt_chunk_impl(data, fek, chunk_index, nonce) ==
    LET ct == GcmEncrypt(fek, nonce, data)
    IN  IF ~ct.ok THEN Null
        ELSE Some(LeBytes32(chunk_index) \o LeBytes32(Len(ct.data))
                  \o nonce \o ct.data)

decrypt_chunk_impl(encrypted_data, fek) ==
    IF Len(encrypted_data) < FRAME_HEADER_SIZE THEN Null
    ELSE LET nonce_bytes       == SubSeq(encrypted_data, 9, 20)
             encrypted_content == SubSeq(encrypted_data, 21, Len(encrypted_data))
         IN  IF Len(encrypted_content) < MAC_SIZE THEN Null
             ELSE GcmDecrypt(fek, nonce_bytes, encrypted_content)

(***************************************************************************)
(* Whole-file streaming encryption and decryption (lib.rs:564-789).  The   *)
(* values OsRng yields (the FEK, the wrap nonce, one nonce per chunk) are  *)
(* parameters.                                                             *)
(***************************************************************************)
\* The while loop of lib.rs:601-621: the Vec of encrypted chunks.
RECURSIVE EncryptLoop(_, _, _, _, _)
EncryptLoop(file_slice, fek, offset, chunk_index, nonces) ==
    IF ~(offset < Len(file_slice)) THEN Some(<<>>)
    ELSE LET chunk_end  == Min(offset + DEFAULT_CHUNK_SIZE, Len(file_slice))
             chunk_data == SubSeq(file_slice, offset + 1, chunk_end)
             enc == encrypt_chunk_impl(chunk_data, fek, chunk_index,
                                       nonces[chunk_index + 1])
         IN  IF ~enc.ok THEN Null
             ELSE LET rest == EncryptLoop(file_slice, fek, chunk_end,
                                          chunk_index + 1, nonces)
                  IN  IF ~rest.ok THEN Null
                      ELSE Some(<<enc.data>> \o rest.data)

RECURSIVE Concat(_)
Concat(chunks) ==
    IF chunks = <<>> THEN <<>> ELSE chunks[1] \o Concat(Tail(chunks))

\* Result: [ok, data (the output buffer), chunks, wrapped_fek].
encrypt_file_streaming(file_slice, master_key, fek, wrap_nonce, nonces) ==
    LET fail == [ok |-> FALSE, data |-> <<>>, chunks |-> <<>>, wrapped_fek |-> <<>>]
    IN  IF Len(master_key) # KEY_SIZE THEN fail
        ELSE LET wrapped_fek == wrap_key(fek, master_key, wrap_nonce)
             IN  IF wrapped_fek = <<>> THEN fail
                 ELSE LET main_header == build_header(Len(wrapped_fek))
                          chunks == EncryptLoop(file_slice, fek, 0, 0, nonces)
                      IN  IF ~chunks.ok THEN fail
                          ELSE [ok |-> TRUE,
                                data |-> main_header \o wrapped_fek \o Concat(chunks.data),
                                chunks |-> chunks.data,
                                wrapped_fek |-> wrapped_fek]

\* The while loop of lib.rs:728-764: the concatenated plaintext chunks.
RECURSIVE DecryptLoop(_, _, _)
DecryptLoop(encrypted_slice, fek, offset) ==
    LET encrypted_len == Len(encrypted_slice)
    IN  IF ~(offset < encrypted_len) THEN Some(<<>>)
        ELSE IF offset + 20 > encrypted_len THEN Null
        ELSE LET chunk_size == FromLe32(SubSeq(encrypted_slice, offset + 5, offset + 8))
             IN  IF offset + 20 + chunk_size > encrypted_len THEN Null
                 ELSE LET chunk_data == SubSeq(encrypted_slice, offset + 1,
                                               offset + 20 + chunk_size)
                          dec == decrypt_chunk_impl(chunk_data, fek)
                      IN  IF ~dec.ok THEN Null
                          ELSE LET rest == DecryptLoop(encrypted_slice, fek,
                                                       offset + 20 + chunk_size)
                               IN  IF ~rest.ok THEN Null
                                   ELSE Some(dec.data \o rest.data)

\* The checks shared by decrypt_file_streaming (lib.rs:686-720) and
\* decrypt_file_init (lib.rs:1101-1135): the unwrapped FEK, or Null.
\* The mutant forgets the version check.
OpenContainer_NoVersionCheck(encrypted_slice, master_key) ==
    IF Len(master_key) # KEY_SIZE THEN Null
    ELSE IF Len(encrypted_slice) < HEADER_SIZE THEN Null
    ELSE LET h == parse_header(SubSeq(encrypted_slice, 1, HEADER_SIZE))
         IN  IF ~h.ok THEN Null
             ELSE IF h.data.magic # MAGIC THEN Null
             ELSE IF Len(encrypted_slice) < HEADER_SIZE + h.data.fek_length THEN Null
             ELSE unwrap_key(SubSeq(encrypted_slice, HEADER_SIZE + 1,
                                    HEADER_SIZE + h.data.fek_length),
                             master_key)

OpenContainer(encrypted_slice, master_key) ==
    IF Len(master_key) # KEY_SIZE THEN Null
    ELSE IF Len(encrypted_slice) < HEADER_SIZE THEN Null
    ELSE LET h == parse_header(SubSeq(encrypted_slice, 1, HEADER_SIZE))
         IN  IF ~h.ok THEN Null
             ELSE IF h.data.magic # MAGIC \/ h.data.version # VERSION THEN Null
             ELSE IF Len(encrypted_slice) < HEADER_SIZE + h.data.fek_length THEN Null
             ELSE unwrap_key(SubSeq(encrypted_slice, HEADER_SIZE + 1,
                                    HEADER_SIZE + h.data.fek_length),
                             master_key)

decrypt_file_streaming(encrypted_slice, master_key) ==
    LET fek == OpenContainer(encrypted_slice, master_key)
    IN  IF ~fek.ok THEN Null
        ELSE LET fek_length ==
                     parse_header(SubSeq(encrypted_slice, 1, HEADER_SIZE)).data.fek_length
             IN  DecryptLoop(encrypted_slice, fek.data, HEADER_SIZE + fek_length)

\* decrypt_file_init: the new DecryptionContext, or Null (no allocation).
decrypt_file_init(encrypted_slice, master_key) ==
    LET fek == OpenContainer(encrypted_slice, master_key)
    IN  IF ~fek.ok THEN Null
        ELSE Some([fek |-> fek.data, chunk_index |-> 0])

(***************************************************************************)
(* Inputs of the model.                                                    *)
(***************************************************************************)
Key(id) == Repeat(id, KEY_SIZE)
Nonce(id) == Repeat(id, NONCE_SIZE)

MasterKeys == {Key(1), Key(2)}
Feks == {Key(3), Key(4)}
Nonces == {Nonce(1), Nonce(2)}

\* Files of 0..MaxFileLen bytes: all 0x41, or 0x41 and 0x42 alternating.
Files ==
    {Repeat(65, n) : n \in 0..MaxFileLen}
      \cup {[i \in 1..n |-> 65 + (i % 2)] : n \in 1..MaxFileLen}

NumChunks(len) == (len + DEFAULT_CHUNK_SIZE - 1) \div DEFAULT_CHUNK_SIZE

(***************************************************************************)
(* Bounds of the transfer engines.  MinChunkSize and MaxChunkSize are the  *)
(* 64 KiB and 10 MiB clamps of copy.rs and unified_copy.rs scaled down;    *)
(* MaxCalls bounds the processing calls made on one session.               *)
(***************************************************************************)
MinChunkSize == 2
MaxChunkSize == 3
MaxCalls == 4
\* The upload_get_header calls of one session.
MaxHeaderCalls == 2

(***************************************************************************)
(* isize values (64-bit targets) as two 32-bit halves: the value is        *)
(* hi * 2^32 + (lo as u32).  `as i32` keeps the low half.                  *)
(***************************************************************************)
ISize(n) == [hi |-> IF n < 0 THEN -1 ELSE 0, lo |-> n]
IsNegative(x) == x.hi < 0
IsZero(x) == x.hi = 0 /\ x.lo = 0
IsPositive(x) == ~IsNegative(x) /\ ~IsZero(x)
AsI32(x) == x.lo

\* A local declared `let n: usize = init;` (or an argument) whose address is
\* cast to *mut usize and written by the callee: reading the immutable
\* binding afterwards yields the value written, or the initial value where
\* the compiler relied on the binding never changing.
ReadImmutable(init, written, folded) == IF folded THEN init ELSE written

\* ptr::copy_nonoverlapping(src, buffer.add(offset), count)
CopyInto(buffer, offset, src, count) ==
    [i \in 1..Len(buffer) |->
        IF i > offset /\ i <= offset + count THEN src[i - offset] ELSE buffer[i]]

\* slice::from_raw_parts(ptr, len) over an allocation of Len(buf) bytes:
\* the bytes past the allocation are whatever lies behind it on the heap.
FromRawParts(buf, len, beyond) ==
    [i \in 1..len |-> IF i <= Len(buf) THEN buf[i] ELSE beyond]

\* chunk_size.max(64 * 1024).min(10 * 1024 * 1024)
ClampChunkSize(chunk_size) == Min(Max(chunk_size, MinChunkSize), MaxChunkSize)

\* is_cancelled (file_io.rs) and UnifiedCopyContext::is_cancelled: the flag
\* as it is now.  The mutant never looks.
is_cancelled_NeverSet(flag) == FALSE

is_cancelled(flag) == flag

(***************************************************************************)
(* Streaming sessions of lib.rs (encrypt_file_init .. decrypt_chunk).      *)
(***************************************************************************)
encrypt_file_init(mk, fek, wrap_nonce) ==
    IF Len(mk) # KEY_SIZE THEN Null
    ELSE LET wrapped_fek == wrap_key(fek, mk, wrap_nonce)
         IN  IF wrapped_fek = <<>> THEN Null
             ELSE Some([fek |-> fek, wrapped_fek |-> wrapped_fek,
                        header |-> build_header(Len(wrapped_fek)),
                        chunk_index |-> 0])

\* Result: [ok, data (the malloc'ed frame), context].  The mutant numbers the
\* frame by the index the session remembers from the call before.
encrypt_chunk_StaleIndex(context, chunk_data, chunk_index, nonce) ==
    LET ctx       == [context EXCEPT !.chunk_index = chunk_index]
        encrypted == encrypt_chunk_impl(chunk_data, ctx.fek, context.chunk_index, nonce)
    IN  [ok |-> encrypted.ok, data |-> encrypted.data, context |-> ctx]

encrypt_chunk(context, chunk_data, chunk_index, nonce) ==
    LET ctx       == [context EXCEPT !.chunk_index = chunk_index]
        encrypted == encrypt_chunk_impl(chunk_data, ctx.fek, chunk_index, nonce)
    IN  [ok |-> encrypted.ok, data |-> encrypted.data, context |-> ctx]

encrypt_file_get_wrapped_fek(context) == context.wrapped_fek

decrypt_chunk(context, encrypted_chunk) ==
    decrypt_chunk_impl(encrypted_chunk, context.fek)

\* encrypt_file_finalize / decrypt_file_finalize: Box::from_raw and drop.
\* The value is what the 32 bytes that held the FEK contain when they are
\* handed back to the allocator: nothing writes to them before the drop.
encrypt_file_finalize(context) == context.fek
decrypt_file_finalize(context) == context.fek

(***************************************************************************)
(* State.                                                                  *)
(*   file_data, master_key : the caller's plaintext file and key           *)
(*   enc   : the result of encrypt_file_streaming (NoEnc before the call)  *)
(*   exp   : what the caller did with the encrypted file last, and what    *)
(*           came back                                                     *)
(*   heap  : heap objects created and released, by kind                    *)
(*   engine      : the transfer engine this behaviour exercises            *)
(*   cancel_flag : the AtomicBool shared with the cancelling thread        *)
(*   dst   : the destination file of a download or a local copy            *)
(*   up, dl: the UploadContext and the DownloadContext                     *)
(*   job   : copy_file_streaming's locals, or the CloudCopyContext /       *)
(*           UnifiedCopyContext with unified_copy_file's locals            *)
(*   hist  : what has happened in the session so far                       *)
(*   call  : the last call of the transfer API and what it gave back       *)
(*   folder: the FolderCopyContext, the source and destination trees and   *)
(*           what folder_copy_next_file has done so far                    *)
(*   throttle : the clock, a ProgressThrottler, the byte counter of the    *)
(*           session that owns it and the progress callbacks made          *)
(*   index : the SearchIndex and the last operation on it                  *)
(*   walk  : the node table given to PathBuilder and the last path built   *)
(*   fuzzy : the two strings given to the fuzzy matcher, the build profile  *)
(*           and what jaro_winkler_similarity gave back                    *)
(***************************************************************************)
VARIABLES file_data, master_key, enc, exp, heap,
          engine, cancel_flag, dst, up, dl, job, hist, call,
          folder, throttle, index, walk, history, indexer, fuzzy

transferVars == <<engine, cancel_flag, dst, up, dl, job, hist, call>>
\* The state the crypto API and the transfer engines leave alone.
otherVars == <<folder, throttle, index, walk, history, indexer, fuzzy>>
vars == <<file_data, master_key, enc, exp, heap,
          engine, cancel_flag, dst, up, dl, job, hist, call, otherVars>>

\* What each of the other subsystems leaves alone.
coreVars == <<file_data, master_key, enc, exp, heap,
              engine, cancel_flag, dst, up, dl, job, hist, call>>
notFolder == <<coreVars, throttle, index, walk, history, indexer, fuzzy>>
notThrottle == <<coreVars, folder, index, walk, history, indexer, fuzzy>>
notIndex == <<coreVars, folder, throttle, walk, history, indexer, fuzzy>>
notWalk == <<coreVars, folder, throttle, index, history, indexer, fuzzy>>
notHistory == <<coreVars, folder, throttle, index, walk, indexer, fuzzy>>
notIndexer == <<coreVars, folder, throttle, index, walk, history, fuzzy>>
notFuzzy == <<coreVars, folder, throttle, index, walk, history, indexer>>

NoEnc == [ok |-> FALSE, data |-> <<>>, chunks |-> <<>>, wrapped_fek |-> <<>>]
NoExp == [op |-> "none", kind |-> "none", key |-> <<>>, input |-> <<>>,
          i |-> 0, j |-> 0, n |-> 0, res |-> Null, res2 |-> Null,
          frames |-> <<>>, failed |-> 0]
NoHeap == [dec_ctx |-> 0, enc_ctx |-> 0, file |-> 0, session |-> 0,
           dec_ctx_freed |-> 0, enc_ctx_freed |-> 0, file_freed |-> 0,
           session_freed |-> 0, fek_released |-> Null]

\* UploadContext::new (pc: where a call of upload_process_chunk stands)
NoUpload == [alloc |-> "none", input_file |-> "null", encryption_context |-> Null,
             master_key |-> <<>>, bytes_read |-> 0, total_bytes |-> 0,
             chunk_index |-> 0, should_encrypt |-> FALSE, is_finalized |-> FALSE,
             pc |-> "idle"]

\* DownloadContext::new
NoDownload == [alloc |-> "none", output_file |-> "null", decryption_context |-> Null,
               master_key |-> <<>>, bytes_written |-> 0, total_bytes |-> 0,
               should_decrypt |-> FALSE, is_finalized |-> FALSE,
               header_written |-> FALSE]

\* CloudCopyContext::new / UnifiedCopyContext::new, and the locals of
\* copy_file_streaming and unified_copy_file.
NoJob == [alloc |-> "none", pc |-> "idle", chunk_size |-> 0, bytes_copied |-> 0,
          total_bytes |-> 0, files_processed |-> 0, total_files |-> 0,
          file_offset |-> 0, file_size |-> 0, buffer_size |-> 0,
          bytes_copied_this_file |-> 0, local_file_offset |-> 0, delivered |-> 0]

NoHist == [cancel_when |-> "never", calls |-> 0, first |-> Null, last |-> Null,
           n_success |-> 0, writes_after_cancel |-> 0, cancel_seen |-> FALSE,
           creates |-> 0, done |-> FALSE, sum_ok |-> 0, finalizes |-> 0,
           headers |-> 0]

NoCall == [op |-> "none", returned |-> FALSE, ret |-> ISize(0), buffer |-> <<>>,
           placed |-> 0, frame |-> <<>>, header |-> <<>>, fek |-> <<>>,
           fek_len |-> 0, read |-> ISize(0), write_invoked |-> FALSE, write |-> 0,
           eof |-> FALSE, progress |-> <<>>, data_len |-> 0, io |-> "ok"]

NoDst == [exists |-> FALSE, data |-> <<>>]

\* No folder copy: no context, empty trees.
NoFolder == [alloc |-> "none", source |-> {}, dest |-> {}, dest_exists |-> FALSE,
             bytes_copied |-> 0, total_bytes |-> 0, files_processed |-> 0,
             total_files |-> 0, copied |-> <<>>, calls |-> 0, rets |-> <<>>]

\* No session with a ProgressThrottler.
NoThrottle == [kind |-> "none", now |-> 0, last_update_time |-> 0,
               update_interval_ms |-> 0, last_bytes_processed |-> 0,
               last_bytes_transferred |-> 0, bytes |-> 0, total |-> 0,
               chunks |-> 0, prev |-> Null, last |-> Null, finished |-> FALSE]

\* No search index, no path walk.
NoIndex == [alloc |-> "none"]
NoWalk == [alloc |-> "none"]
NoHistory == [alloc |-> "none"]
NoIndexer == [alloc |-> "none"]
NoFuzzy == [alloc |-> "none"]

\* Everything but the crypto API and the transfer engines is idle.
OthersIdle ==
    /\ folder = NoFolder /\ throttle = NoThrottle /\ index = NoIndex /\ walk = NoWalk
    /\ history = NoHistory /\ indexer = NoIndexer /\ fuzzy = NoFuzzy

\* The crypto API and the transfer engines are idle.
CoreIdle ==
    /\ file_data = <<>> /\ master_key = <<>> /\ enc = NoEnc /\ exp = NoExp
    /\ heap = NoHeap /\ cancel_flag = FALSE /\ dst = NoDst
    /\ up = NoUpload /\ dl = NoDownload /\ job = NoJob /\ hist = NoHist /\ call = NoCall

CryptoInit ==
    /\ file_data \in Files
    /\ master_key \in MasterKeys
    /\ enc = NoEnc
    /\ exp = NoExp
    /\ heap = NoHeap
    /\ engine = "none" /\ cancel_flag = FALSE /\ dst = NoDst
    /\ up = NoUpload /\ dl = NoDownload /\ job = NoJob
    /\ hist = NoHist /\ call = NoCall
    /\ OthersIdle

\* encrypt_file_streaming(file_data, master_key)
EncryptFileStreaming ==
    /\ engine = "none" /\ ~enc.ok
    /\ \E fek \in Feks, wrap_nonce \in Nonces,
          nonces \in [1..NumChunks(Len(file_data)) -> Nonces] :
          enc' = encrypt_file_streaming(file_data, master_key, fek, wrap_nonce, nonces)
    /\ UNCHANGED <<otherVars, file_data, master_key, exp, heap, transferVars>>

\* decrypt_file_streaming(enc, key)
DecryptFileStreaming ==
    /\ engine = "none" /\ enc.ok /\ exp.op = "none"
    /\ \E key \in MasterKeys :
          exp' = [NoExp EXCEPT !.op = "decrypt_file", !.key = key, !.input = enc.data,
                               !.res = decrypt_file_streaming(enc.data, key)]
    /\ UNCHANGED <<otherVars, file_data, master_key, enc, heap, transferVars>>

(***************************************************************************)
(* Replacing one field of frame i by the same field of frame j.            *)
(***************************************************************************)
FrameField(frame, field) ==
    CASE field = "index"  -> SubSeq(frame, 1, 4)
      [] field = "length" -> SubSeq(frame, 5, 8)
      [] field = "nonce"  -> SubSeq(frame, 9, 20)

WithField(frame, field, value) ==
    CASE field = "index"  -> value \o SubSeq(frame, 5, Len(frame))
      [] field = "length" -> SubSeq(frame, 1, 4) \o value \o SubSeq(frame, 9, Len(frame))
      [] field = "nonce"  -> SubSeq(frame, 1, 8) \o value \o SubSeq(frame, 21, Len(frame))

Fields == {"index", "length", "nonce"}

\* Frame i of the file with `field` taken from frame j, handed to
\* decrypt_chunk (res) and, inside the whole file, to
\* decrypt_file_streaming (res2), under the right key.
ReplaceFieldAndDecrypt ==
    /\ engine = "none" /\ enc.ok /\ exp.op = "none"
    /\ \E i \in 1..Len(enc.chunks), j \in 1..Len(enc.chunks), field \in Fields :
          /\ i # j
          /\ LET frame == WithField(enc.chunks[i], field, FrameField(enc.chunks[j], field))
                 file  == build_header(Len(enc.wrapped_fek)) \o enc.wrapped_fek
                            \o Concat([k \in 1..Len(enc.chunks) |->
                                         IF k = i THEN frame ELSE enc.chunks[k]])
                 fek   == unwrap_key(enc.wrapped_fek, master_key)
             IN  exp' = [NoExp EXCEPT !.op = "replace", !.kind = field, !.key = master_key,
                                      !.i = i, !.j = j, !.input = frame,
                                      !.res = decrypt_chunk_impl(frame, fek.data),
                                      !.res2 = decrypt_file_streaming(file, master_key)]
    /\ UNCHANGED <<otherVars, file_data, master_key, enc, heap, transferVars>>

(***************************************************************************)
(* decrypt_file_init on well-formed and malformed containers.              *)
(***************************************************************************)
SetByte(buf, pos, b) == [buf EXCEPT ![pos] = b]

OtherKey(k) == CHOOSE k2 \in MasterKeys : k2 # k

InitKinds == {"prefix", "ff12", "badmagic", "badversion", "wrongkey",
              "shortkey", "badfek", "longfek"}

\* The container handed to decrypt_file_init, by kind; n is the length of
\* the prefix kept.
InitInput(kind, n) ==
    CASE kind = "prefix"     -> SubSeq(enc.data, 1, n)
      [] kind = "ff12"       -> Repeat(255, HEADER_SIZE)
      [] kind = "badmagic"   -> SetByte(enc.data, 1, (enc.data[1] + 1) % 256)
      [] kind = "badversion" -> SetByte(enc.data, 5, 2)
      [] kind = "badfek"     -> SetByte(enc.data, HEADER_SIZE + NONCE_SIZE + 1,
                                        (enc.data[HEADER_SIZE + NONCE_SIZE + 1] + 1) % 256)
      [] kind = "longfek"    -> SetByte(enc.data, 9, enc.data[9] + 1)
      [] OTHER               -> enc.data

\* The prefix lengths tried: around the header, around the end of the
\* wrapped FEK, and the whole file.
PrefixLens ==
    LET L == Len(enc.wrapped_fek)
    IN  {0, HEADER_SIZE - 1, HEADER_SIZE, HEADER_SIZE + NONCE_SIZE + MAC_SIZE,
         HEADER_SIZE + L - 1, HEADER_SIZE + L, Len(enc.data)}

InitKey(kind) ==
    CASE kind = "wrongkey" -> OtherKey(master_key)
      [] kind = "shortkey" -> SubSeq(master_key, 1, 16)
      [] OTHER             -> master_key

DecryptFileInit ==
    /\ engine = "none" /\ enc.ok /\ exp.op = "none"
    /\ \E kind \in InitKinds, n \in PrefixLens :
          /\ kind # "prefix" => n = Len(enc.data)
          /\ LET input == InitInput(kind, n)
                 ctx   == decrypt_file_init(input, InitKey(kind))
             IN  /\ exp' = [NoExp EXCEPT !.op = "decrypt_init", !.kind = kind,
                                         !.key = InitKey(kind), !.n = n,
                                         !.input = input, !.res = ctx]
                 /\ heap' = [heap EXCEPT !.dec_ctx = @ + (IF ctx.ok THEN 1 ELSE 0)]
    /\ UNCHANGED <<otherVars, file_data, master_key, enc, transferVars>>

\* decrypt_chunk on the DecryptSession decrypt_file_init returned (exp.res),
\* with frame k of the file: exp.frames lists the frames passed so far,
\* exp.res2 is what the call returned, exp.failed counts the null returns.
DecryptChunk ==
    /\ engine = "none" /\ enc.ok /\ exp.op \in {"decrypt_init", "decrypt_chunk"}
    /\ exp.res.ok /\ Len(exp.frames) < Len(enc.chunks)
    /\ \E k \in 1..Len(enc.chunks) :
          \E r \in {decrypt_chunk(exp.res.data, enc.chunks[k])} :
              exp' = [exp EXCEPT !.op = "decrypt_chunk", !.res2 = r,
                                 !.frames = Append(@, k),
                                 !.failed = @ + (IF r.ok THEN 0 ELSE 1)]
    /\ UNCHANGED <<otherVars, file_data, master_key, enc, heap, transferVars>>

CryptoNext ==
    \/ EncryptFileStreaming
    \/ DecryptFileStreaming
    \/ ReplaceFieldAndDecrypt
    \/ DecryptFileInit
    \/ DecryptChunk

SpecCrypto == CryptoInit /\ [][CryptoNext]_vars

(***************************************************************************)
(* The transfer engines.  One behaviour drives one engine; a second        *)
(* thread may set the cancellation flag between any two steps.  A call     *)
(* that polls the flag is split at the poll, so that the flag can change   *)
(* while the call is under way.                                            *)
(***************************************************************************)
Engines == {"upload", "download", "copy", "cloud", "unified"}

\* Files read by an upload or a local copy.
TransferFiles == {[i \in 1..n |-> 65 + (i % 2)] : n \in {0, MaxFileLen}}

\* The destination before the session: absent, or a file with old content.
OldDst == [exists |-> TRUE, data |-> <<7, 7>>]

\* What the caller asks of upload_init / download_init: the should_encrypt /
\* should_decrypt argument and the length of the key handed over.
SessionModes == {[crypt |-> TRUE,  master_key_len |-> KEY_SIZE],
                 [crypt |-> TRUE,  master_key_len |-> KEY_SIZE \div 2],
                 [crypt |-> FALSE, master_key_len |-> 0]}

\* Sizes of the caller's buffer: too small for anything, a frame exactly,
\* header and wrapped FEK and a frame.
BufferSizes == {1, FRAME_HEADER_SIZE + MAC_SIZE + DEFAULT_CHUNK_SIZE,
                HEADER_SIZE + NONCE_SIZE + KEY_SIZE + MAC_SIZE
                  + FRAME_HEADER_SIZE + MAC_SIZE + DEFAULT_CHUNK_SIZE}

\* The chunk_size argument of copy_file_streaming, cloud_copy_init and
\* unified_copy_init: below the lower clamp, above the upper one.
ChunkSizeArgs == {0, MaxChunkSize + 1}

\* Results of the read callback (isize) and of the write callback (i32).
WideNegative == [hi |-> -2, lo |-> 0]
ReadResults == {ISize(ERROR_IO_FAILED), ISize(0), ISize(1), ISize(MinChunkSize),
                WideNegative}
WriteResults == {ERROR_PERMISSION_DENIED, 0, 1}

\* A byte read behind a heap allocation: not a value the program wrote.
Beyond == -1

CancelledCodes == {ISize(ERROR_CANCELLED), ISize(UNIFIED_ERROR_CANCELLED)}

\* A processing call has returned r.
Returned(h, r) ==
    [h EXCEPT !.calls = @ + 1, !.first = IF @.ok THEN @ ELSE Some(r),
              !.last = Some(r)]

\* A cancellation check has found the flag set, and the call returns r.
Cancelled(h, r) == [Returned(h, r) EXCEPT !.cancel_seen = TRUE]

\* A chunk has been written (or handed to the caller).
Wrote(h) ==
    [h EXCEPT !.writes_after_cancel = @ + (IF cancel_flag THEN 1 ELSE 0)]

TransferInit ==
    /\ engine \in Engines
    /\ master_key = Key(1)
    /\ file_data \in (IF engine \in {"upload", "download", "copy"}
                        THEN TransferFiles ELSE {<<>>})
    /\ enc \in (IF engine = "download"
                  THEN {encrypt_file_streaming(file_data, master_key, Key(3), Nonce(1),
                            [i \in 1..NumChunks(Len(file_data)) |-> Nonce(2)])}
                  ELSE {NoEnc})
    /\ exp = NoExp
    /\ heap = NoHeap
    /\ cancel_flag \in BOOLEAN
    /\ dst \in (CASE engine = "copy"     -> {NoDst, OldDst}
                  [] engine = "download" -> {OldDst}
                  [] OTHER               -> {NoDst})
    /\ up = NoUpload /\ dl = NoDownload /\ job = NoJob
    /\ hist = [NoHist EXCEPT !.cancel_when = IF cancel_flag THEN "before" ELSE "never"]
    /\ call = NoCall
    /\ OthersIdle

\* The transfer the flag belongs to is under way.
InProgress ==
    CASE engine = "upload"   -> up.alloc = "live" /\ ~up.is_finalized /\ ~hist.done
      [] engine = "download" -> dl.alloc = "live" /\ ~dl.is_finalized
      [] engine = "copy"     -> job.pc \in {"poll", "chunk"}
      [] engine = "cloud"    -> job.alloc = "live" /\ ~hist.done
      [] engine = "unified"  -> job.pc \in {"loop", "body"}
      [] engine = "folder_file" -> job.pc \in {"entry", "chunk"}
      [] OTHER               -> FALSE

\* Another thread: cancel_flag.store(true)
SetCancel ==
    /\ InProgress /\ ~cancel_flag /\ hist.cancel_when = "never"
    /\ cancel_flag' = TRUE
    /\ hist' = [hist EXCEPT !.cancel_when = "during"]
    /\ UNCHANGED <<otherVars, file_data, master_key, enc, exp, heap, engine, dst, up, dl, job, call>>

\* The caller, told CANCELLED, resets the flag to go on with the session.
ClearCancel ==
    /\ cancel_flag /\ hist.cancel_when = "during"
    /\ call.returned /\ call.ret \in CancelledCodes
    /\ cancel_flag' = FALSE
    /\ hist' = [hist EXCEPT !.cancel_when = "cleared"]
    /\ UNCHANGED <<otherVars, file_data, master_key, enc, exp, heap, engine, dst, up, dl, job, call>>

(***************************************************************************)
(* upload.rs                                                               *)
(***************************************************************************)
\* upload_init: when File::open fails the null pointer is returned and no
\* context exists; no error code reaches the caller.
UploadInit ==
    /\ engine = "upload" /\ up.alloc = "none"
    /\ \E mode \in SessionModes, io \in {"ok", "open_fails"} :
          IF io = "open_fails"
          THEN /\ call' = [NoCall EXCEPT !.op = "upload_init", !.returned = TRUE,
                                         !.io = io]
               /\ UNCHANGED <<up, heap>>
          ELSE /\ up' = [NoUpload EXCEPT
                            !.alloc = "live",
                            !.total_bytes = Len(file_data),
                            !.should_encrypt = mode.crypt,
                            !.master_key = IF mode.master_key_len = 32
                                             THEN SubSeq(master_key, 1, 32) ELSE <<>>]
               /\ heap' = [heap EXCEPT !.session = @ + 1]
               /\ call' = call
    /\ UNCHANGED <<otherVars, file_data, master_key, enc, exp, engine, cancel_flag, dst, dl, job,
                   hist>>

\* upload_process_chunk up to the cancellation check (upload.rs:150-164).
UploadProcessChunkPoll ==
    /\ engine = "upload" /\ up.alloc = "live" /\ ~up.is_finalized /\ up.pc = "idle"
    /\ hist.calls < MaxCalls
    /\ IF up.bytes_read >= up.total_bytes
         THEN /\ call' = [NoCall EXCEPT !.op = "upload_process_chunk",
                                        !.returned = TRUE, !.ret = ISize(0)]
              /\ hist' = [Returned(hist, ISize(0)) EXCEPT !.done = TRUE]
              /\ up' = up
         ELSE IF is_cancelled(cancel_flag)
         THEN /\ call' = [NoCall EXCEPT !.op = "upload_process_chunk",
                                        !.returned = TRUE,
                                        !.ret = ISize(ERROR_CANCELLED)]
              /\ hist' = Cancelled(hist, ISize(ERROR_CANCELLED))
              /\ up' = up
         ELSE /\ call' = [NoCall EXCEPT !.op = "upload_process_chunk"]
              /\ hist' = hist
              /\ up' = [up EXCEPT !.pc = "body"]
    /\ UNCHANGED <<otherVars, file_data, master_key, enc, exp, heap, engine, cancel_flag, dst, dl, job>>

\* upload_process_chunk from the opening of the file on (upload.rs:166-275):
\* [up, ret, buffer, placed, frame, progress].  io is what the file system
\* does, (fek, wrap_nonce, nonce) what OsRng yields.
upload_process_chunk(u, file, buffer_size, io, fek, wrap_nonce, nonce, fold_fek_len, fold_output_len) ==
    LET buffer0     == Repeat(0, buffer_size)
        u1          == [u EXCEPT !.input_file = "open", !.pc = "idle"]
        chunk_size  == Min(u.total_bytes - u.bytes_read, DEFAULT_CHUNK_SIZE)
        chunk_data  == SubSeq(file, u.bytes_read + 1,
                              Min(u.bytes_read + chunk_size, Len(file)))
        actual_size == Len(chunk_data)
        Out(u2, ret, buffer, placed, frame, progress) ==
            [up |-> u2, ret |-> ISize(ret), buffer |-> buffer, placed |-> placed,
             frame |-> frame, progress |-> progress]
        Fail(u2, ret, buffer) == Out(u2, ret, buffer, 0, <<>>, <<>>)
        Done(u2, buffer, placed, frame) ==
            Out([u2 EXCEPT !.bytes_read = @ + actual_size, !.chunk_index = @ + 1],
                actual_size, buffer, placed, frame,
                <<u2.bytes_read + actual_size, u2.total_bytes>>)
    IN  IF io = "open_fails" THEN Fail([u EXCEPT !.pc = "idle"], ERROR_IO_FAILED, buffer0)
        ELSE IF io = "read_fails" THEN Fail(u1, ERROR_IO_FAILED, buffer0)
        ELSE IF actual_size = 0 THEN Fail(u1, 0, buffer0)
        ELSE IF u.should_encrypt /\ u.master_key # <<>>
        THEN LET first   == ~u.encryption_context.ok
                 enc_ctx == IF first
                              THEN encrypt_file_init(u.master_key, fek, wrap_nonce)
                              ELSE u.encryption_context
             IN  IF ~enc_ctx.ok THEN Fail(u1, ERROR_IO_FAILED, buffer0)
                 ELSE LET wrapped_fek     == encrypt_file_get_wrapped_fek(enc_ctx.data)
                          wrapped_fek_len == ReadImmutable(0, Len(wrapped_fek), fold_fek_len)
                          buffer1 == IF first /\ wrapped_fek_len + 12 <= buffer_size
                                       THEN CopyInto(buffer0, 12, wrapped_fek, wrapped_fek_len)
                                       ELSE buffer0
                          encrypted == encrypt_chunk(enc_ctx.data, chunk_data,
                                                     u.chunk_index, nonce)
                          u2 == [u1 EXCEPT !.encryption_context = Some(encrypted.context)]
                      IN  IF ~encrypted.ok THEN Fail(u2, ERROR_IO_FAILED, buffer1)
                          ELSE LET encrypted_size ==
                                       ReadImmutable(0, Len(encrypted.data), fold_output_len)
                                   fits == encrypted_size <= buffer_size
                               IN  Done(u2,
                                        IF fits THEN CopyInto(buffer1, 0, encrypted.data,
                                                              encrypted_size)
                                                ELSE buffer1,
                                        IF fits THEN encrypted_size ELSE 0,
                                        encrypted.data)
        ELSE LET fits == actual_size <= buffer_size
             IN  Done(u1,
                      IF fits THEN CopyInto(buffer0, 0, chunk_data, actual_size)
                              ELSE buffer0,
                      IF fits THEN actual_size ELSE 0,
                      <<>>)

UploadProcessChunkBody ==
    /\ engine = "upload" /\ up.pc = "body"
    /\ \E buffer_size \in BufferSizes, io \in {"ok", "open_fails", "read_fails"},
          fold_fek_len \in BOOLEAN, fold_output_len \in BOOLEAN :
          /\ io = "open_fails" => up.input_file = "null"
          /\ (io # "ok" \/ ~up.should_encrypt \/ up.master_key = <<>>)
                => (~fold_fek_len /\ ~fold_output_len)
          /\ fold_fek_len => ~up.encryption_context.ok
          /\ \E r \in {upload_process_chunk(up, file_data, buffer_size, io, Key(3),
                                             Nonce(1), Nonce(2), fold_fek_len,
                                             fold_output_len)} :
             LET ok == IsPositive(r.ret)
             IN  /\ up' = r.up
                 /\ call' = [NoCall EXCEPT !.op = "upload_process_chunk",
                                           !.returned = TRUE, !.ret = r.ret,
                                           !.io = io,
                                           !.buffer = r.buffer, !.placed = r.placed,
                                           !.frame = r.frame, !.progress = r.progress]
                 /\ hist' = LET h == Returned(hist, r.ret)
                            IN  IF ok THEN [Wrote(h) EXCEPT !.n_success = @ + 1] ELSE h
                 /\ heap' = [heap EXCEPT
                               !.file = @ + (IF up.input_file = "null"
                                                /\ r.up.input_file = "open" THEN 1 ELSE 0),
                               !.enc_ctx = @ + (IF ~up.encryption_context.ok
                                                   /\ r.up.encryption_context.ok
                                                  THEN 1 ELSE 0)]
    /\ UNCHANGED <<otherVars, file_data, master_key, enc, exp, engine, cancel_flag, dst, dl, job>>

\* upload_get_header: [up, ret, header, fek, fek_len]
upload_get_header(u, fek_buffer_size, fek, wrap_nonce, fold_fek_len) ==
    IF ~u.should_encrypt \/ u.master_key = <<>>
    THEN [up |-> u, ret |-> SUCCESS, header |-> Repeat(0, 12),
          fek |-> Repeat(0, fek_buffer_size), fek_len |-> 0]
    ELSE LET enc_ctx == IF ~u.encryption_context.ok
                          THEN encrypt_file_init(u.master_key, fek, wrap_nonce)
                          ELSE u.encryption_context
         IN  IF ~enc_ctx.ok
             THEN [up |-> u, ret |-> ERROR_IO_FAILED, header |-> Repeat(0, 12),
                   fek |-> Repeat(0, fek_buffer_size), fek_len |-> 0]
             ELSE LET wrapped_fek     == encrypt_file_get_wrapped_fek(enc_ctx.data)
                      wrapped_fek_len == ReadImmutable(0, Len(wrapped_fek), fold_fek_len)
                  IN  [up |-> [u EXCEPT !.encryption_context = enc_ctx],
                       ret |-> SUCCESS,
                       header |-> LeBytes32(MAGIC) \o <<VERSION, 0, 0, 0>>
                                    \o LeBytes32(wrapped_fek_len),
                       fek |-> IF wrapped_fek_len <= fek_buffer_size
                                 THEN CopyInto(Repeat(0, fek_buffer_size), 0,
                                               wrapped_fek, wrapped_fek_len)
                                 ELSE Repeat(0, fek_buffer_size),
                       fek_len |-> wrapped_fek_len]

UploadGetHeader ==
    /\ engine = "upload" /\ up.alloc = "live" /\ ~up.is_finalized /\ up.pc = "idle"
    /\ hist.headers < MaxHeaderCalls
    /\ \E fek_buffer_size \in {NONCE_SIZE + KEY_SIZE + MAC_SIZE}, fold_fek_len \in BOOLEAN :
          /\ (~up.should_encrypt \/ up.master_key = <<>>) => ~fold_fek_len
          /\ \E r \in {upload_get_header(up, fek_buffer_size, Key(3), Nonce(1),
                                          fold_fek_len)} :
              /\ up' = r.up
              /\ call' = [NoCall EXCEPT !.op = "upload_get_header", !.returned = TRUE,
                                        !.ret = ISize(r.ret), !.header = r.header,
                                        !.fek = r.fek, !.fek_len = r.fek_len]
              /\ heap' = [heap EXCEPT
                            !.enc_ctx = @ + (IF ~up.encryption_context.ok
                                                /\ r.up.encryption_context.ok
                                               THEN 1 ELSE 0)]
    /\ hist' = [hist EXCEPT !.headers = @ + 1]
    /\ UNCHANGED <<otherVars, file_data, master_key, enc, exp, engine, cancel_flag, dst, dl, job>>

\* upload_finalize: encrypt_file_finalize drops the EncryptionContext, the
\* Option in the UploadContext keeps the pointer.
UploadFinalize ==
    /\ engine = "upload" /\ up.alloc = "live" /\ up.pc = "idle"
    /\ hist.finalizes < 2
    /\ heap' = [heap EXCEPT
                  !.enc_ctx_freed = @ + (IF up.encryption_context.ok THEN 1 ELSE 0),
                  !.file_freed = @ + (IF up.input_file # "null" THEN 1 ELSE 0),
                  !.fek_released =
                      IF up.encryption_context.ok
                      THEN Some(encrypt_file_finalize(up.encryption_context.data))
                      ELSE @]
    /\ up' = [up EXCEPT !.input_file = "null", !.is_finalized = TRUE]
    /\ call' = [NoCall EXCEPT !.op = "upload_finalize", !.returned = TRUE,
                              !.ret = ISize(SUCCESS)]
    /\ hist' = [hist EXCEPT !.finalizes = @ + 1]
    /\ UNCHANGED <<otherVars, file_data, master_key, enc, exp, engine, cancel_flag, dst, dl, job>>

UploadFree ==
    /\ engine = "upload" /\ up.alloc = "live" /\ up.pc = "idle"
    /\ heap' = [heap EXCEPT
                  !.enc_ctx_freed = @ + (IF ~up.is_finalized /\ up.encryption_context.ok
                                           THEN 1 ELSE 0),
                  !.file_freed = @ + (IF ~up.is_finalized /\ up.input_file # "null"
                                        THEN 1 ELSE 0),
                  !.fek_released =
                      IF ~up.is_finalized /\ up.encryption_context.ok
                      THEN Some(encrypt_file_finalize(up.encryption_context.data))
                      ELSE @,
                  !.session_freed = @ + 1]
    /\ up' = [up EXCEPT !.alloc = "freed"]
    /\ call' = [NoCall EXCEPT !.op = "upload_free", !.returned = TRUE]
    /\ UNCHANGED <<otherVars, file_data, master_key, enc, exp, engine, cancel_flag, dst, dl, job, hist>>

(***************************************************************************)
(* download.rs                                                             *)
(***************************************************************************)
\* download_init creates (truncates) the output file and drops the handle.
DownloadInit ==
    /\ engine = "download" /\ dl.alloc = "none"
    /\ \E mode \in SessionModes :
          dl' = [NoDownload EXCEPT
                    !.alloc = "live",
                    !.should_decrypt = mode.crypt,
                    !.master_key = IF mode.master_key_len = 32
                                     THEN SubSeq(master_key, 1, 32) ELSE <<>>]
    /\ dst' = [exists |-> TRUE, data |-> <<>>]
    /\ hist' = [hist EXCEPT !.creates = @ + 1]
    /\ heap' = [heap EXCEPT !.session = @ + 1]
    /\ UNCHANGED <<otherVars, file_data, master_key, enc, exp, engine, cancel_flag, up, job, call>>

\* The remote object: the container when the session decrypts, else the file.
Remote == IF dl.should_decrypt THEN enc.data ELSE file_data

\* The lengths of the piece the caller may hand over next: of a container,
\* a few bytes, the header alone, the header with the wrapped FEK, or these
\* with the first frame, then frame by frame; of a plain file, the next
\* chunk.
NextPieceLens(remote, offset, framed) ==
    IF offset >= Len(remote) THEN {}
    ELSE IF ~framed THEN {Min(DEFAULT_CHUNK_SIZE, Len(remote) - offset)}
    ELSE IF offset = 0
    THEN LET h == HEADER_SIZE + FromLe32(SubSeq(remote, 9, 12))
         IN  {5, HEADER_SIZE, h} \cup (IF Len(remote) > h
                            THEN {h + FRAME_HEADER_SIZE
                                    + FromLe32(SubSeq(remote, h + 5, h + 8))}
                            ELSE {})
    ELSE IF offset < HEADER_SIZE + FromLe32(SubSeq(remote, 9, 12))
    THEN {HEADER_SIZE + FromLe32(SubSeq(remote, 9, 12)) - offset}
    ELSE {FRAME_HEADER_SIZE + FromLe32(SubSeq(remote, offset + 5, offset + 8))}

\* if ctx.should_decrypt && ctx.decryption_context.is_none()
\*    && !ctx.master_key.is_empty(): the chunk is the first chunk of a
\* session that decrypts.  The mutant tests is_some.
needs_decrypt_init_IsSome(d) ==
    d.should_decrypt /\ d.decryption_context.ok /\ d.master_key # <<>>

needs_decrypt_init(d) ==
    d.should_decrypt /\ ~d.decryption_context.ok /\ d.master_key # <<>>

\* download_append_chunk after the cancellation check:
\* [dl, ret, written (the bytes given to the writer), created].
download_append_chunk(d, data, io, beyond, folded) ==
    LET data_len == Len(data)
        creating == d.output_file = "null"
        d1       == [d EXCEPT !.output_file = "open"]
        Out(d2, ret, written) ==
            [dl |-> d2, ret |-> ret, written |-> written, created |-> creating]
    IN  IF creating /\ io = "create_fails"
        THEN [dl |-> d, ret |-> ERROR_PERMISSION_DENIED, written |-> <<>>,
              created |-> FALSE]
        ELSE IF needs_decrypt_init(d)
        THEN IF data_len < 12 THEN Out(d1, ERROR_INVALID_PATH, <<>>)
             ELSE LET fek_len == FromLe32(SubSeq(data, 9, 12))
                  IN  IF data_len < 12 + fek_len THEN Out(d1, ERROR_INVALID_PATH, <<>>)
                      ELSE LET dec_ctx == decrypt_file_init(SubSeq(data, 1, 12 + fek_len),
                                                            d.master_key)
                               header_and_fek == SubSeq(data, 1, 12 + fek_len)
                               d2 == [d1 EXCEPT !.decryption_context = dec_ctx]
                               d3 == [d2 EXCEPT !.header_written = TRUE,
                                                !.bytes_written = 12 + fek_len]
                               data_start == 12 + fek_len
                           IN  IF ~dec_ctx.ok THEN Out(d1, ERROR_IO_FAILED, <<>>)
                               ELSE IF io = "write_fails" THEN Out(d2, ERROR_IO_FAILED, <<>>)
                               ELSE IF data_len > data_start
                               THEN LET decrypted ==
                                            decrypt_chunk(dec_ctx.data,
                                                          SubSeq(data, data_start + 1, data_len))
                                        decrypted_size ==
                                            ReadImmutable(data_len, Len(decrypted.data), folded)
                                    IN  IF ~decrypted.ok
                                        THEN Out(d3, ERROR_IO_FAILED, header_and_fek)
                                        ELSE Out([d3 EXCEPT !.bytes_written = @ + decrypted_size],
                                                 SUCCESS,
                                                 header_and_fek
                                                   \o FromRawParts(decrypted.data,
                                                                   decrypted_size, beyond))
                               ELSE Out(d3, SUCCESS, header_and_fek)
        ELSE IF d.should_decrypt /\ d.decryption_context.ok
        THEN LET decrypted      == decrypt_chunk(d.decryption_context.data, data)
                 decrypted_size == ReadImmutable(0, Len(decrypted.data), folded)
             IN  IF ~decrypted.ok THEN Out(d1, ERROR_IO_FAILED, <<>>)
                 ELSE IF io = "write_fails" THEN Out(d1, ERROR_IO_FAILED, <<>>)
                 ELSE Out([d1 EXCEPT !.bytes_written = @ + decrypted_size], SUCCESS,
                          FromRawParts(decrypted.data, decrypted_size, beyond))
        ELSE IF io = "write_fails" THEN Out(d1, ERROR_IO_FAILED, <<>>)
             ELSE Out([d1 EXCEPT !.bytes_written = @ + data_len], SUCCESS, data)

DownloadAppendChunk ==
    /\ engine = "download" /\ dl.alloc = "live" /\ ~dl.is_finalized
    /\ hist.calls < MaxCalls
    /\ \E n \in NextPieceLens(Remote, job.delivered, dl.should_decrypt),
          io \in {"ok", "create_fails", "write_fails"}, folded \in BOOLEAN :
          /\ io = "create_fails" => dl.output_file = "null"
          /\ (io # "ok" \/ ~dl.should_decrypt \/ dl.master_key = <<>>) => ~folded
          /\ LET data == SubSeq(Remote, job.delivered + 1, job.delivered + n)
             IN  IF is_cancelled(cancel_flag)
                 THEN /\ io = "ok" /\ ~folded
                      /\ call' = [NoCall EXCEPT !.op = "download_append_chunk",
                                                !.returned = TRUE,
                                                !.data_len = n,
                                                !.ret = ISize(ERROR_CANCELLED)]
                      /\ hist' = Cancelled(hist, ISize(ERROR_CANCELLED))
                      /\ UNCHANGED <<dl, dst, job, heap>>
                 ELSE \E r \in {download_append_chunk(dl, data, io, Beyond, folded)} :
                          /\ dl' = r.dl
                          /\ dst' = IF r.created
                                      THEN [exists |-> TRUE, data |-> r.written]
                                      ELSE [dst EXCEPT !.data = @ \o r.written]
                          /\ job' = [job EXCEPT !.delivered =
                                        @ + (IF r.ret = SUCCESS THEN n ELSE 0)]
                          /\ call' = [NoCall EXCEPT !.op = "download_append_chunk",
                                                    !.returned = TRUE,
                                                    !.data_len = n,
                                                    !.ret = ISize(r.ret),
                                                    !.progress =
                                                        IF r.ret = SUCCESS
                                                          THEN <<r.dl.bytes_written,
                                                                 r.dl.total_bytes>>
                                                          ELSE <<>>]
                          /\ hist' = LET h == [Returned(hist, ISize(r.ret)) EXCEPT
                                                 !.creates = @ + (IF r.created THEN 1 ELSE 0),
                                                 !.n_success = @ + (IF r.ret = SUCCESS
                                                                      THEN 1 ELSE 0)]
                                     IN  IF r.written # <<>> THEN Wrote(h) ELSE h
                          /\ heap' = [heap EXCEPT
                                        !.file = @ + (IF r.created THEN 1 ELSE 0),
                                        !.dec_ctx = @ + (IF ~dl.decryption_context.ok
                                                            /\ r.dl.decryption_context.ok
                                                           THEN 1 ELSE 0)]
    /\ UNCHANGED <<otherVars, file_data, master_key, enc, exp, engine, cancel_flag, up>>

\* Lengths of the data handed to download_append_decrypted: a byte, and
\* more than a header with its wrapped FEK.
DecryptedLens == {1, HEADER_SIZE + NONCE_SIZE + KEY_SIZE + MAC_SIZE + 1}

\* download_append_decrypted: the data is written as it is.
DownloadAppendDecrypted ==
    /\ engine = "download" /\ dl.alloc = "live" /\ ~dl.is_finalized
    /\ hist.calls < MaxCalls
    /\ \E data_len \in DecryptedLens, io \in {"ok", "create_fails", "write_fails"} :
          /\ io = "create_fails" => dl.output_file = "null"
          /\ IF is_cancelled(cancel_flag)
               THEN /\ io = "ok"
                    /\ call' = [NoCall EXCEPT !.op = "download_append_decrypted",
                                              !.returned = TRUE,
                                              !.ret = ISize(ERROR_CANCELLED)]
                    /\ hist' = Cancelled(hist, ISize(ERROR_CANCELLED))
                    /\ UNCHANGED <<dl, dst, heap>>
               ELSE LET creating == dl.output_file = "null" /\ io # "create_fails"
                        ok       == io = "ok"
                        ret      == CASE io = "create_fails" -> ERROR_PERMISSION_DENIED
                                      [] io = "write_fails"  -> ERROR_IO_FAILED
                                      [] OTHER               -> SUCCESS
                        written  == IF ok THEN Repeat(68, data_len) ELSE <<>>
                    IN  /\ dl' = [dl EXCEPT
                                    !.output_file = IF io = "create_fails" THEN @ ELSE "open",
                                    !.bytes_written = @ + (IF ok THEN data_len ELSE 0)]
                        /\ dst' = IF creating THEN [exists |-> TRUE, data |-> written]
                                   ELSE [dst EXCEPT !.data = @ \o written]
                        /\ call' = [NoCall EXCEPT
                                      !.op = "download_append_decrypted",
                                      !.returned = TRUE, !.ret = ISize(ret),
                                      !.progress = IF ok THEN <<dl.bytes_written + data_len,
                                                                dl.total_bytes>>
                                                   ELSE <<>>]
                        /\ hist' = LET h == [Returned(hist, ISize(ret)) EXCEPT
                                               !.creates = @ + (IF creating THEN 1 ELSE 0)]
                                   IN  IF ok THEN Wrote(h) ELSE h
                        /\ heap' = [heap EXCEPT !.file = @ + (IF creating THEN 1 ELSE 0)]
    /\ UNCHANGED <<otherVars, file_data, master_key, enc, exp, engine, cancel_flag, up, job>>

\* download_finalize: decrypt_file_finalize drops the DecryptionContext, the
\* Option in the DownloadContext keeps the pointer; a failing flush returns
\* before the writer is closed and before is_finalized is set.
DownloadFinalize ==
    /\ engine = "download" /\ dl.alloc = "live"
    /\ hist.finalizes < 2
    /\ \E flush_ok \in BOOLEAN :
          /\ ~flush_ok => dl.output_file # "null"
          /\ heap' = [heap EXCEPT
                        !.dec_ctx_freed = @ + (IF dl.decryption_context.ok THEN 1 ELSE 0),
                        !.file_freed = @ + (IF flush_ok /\ dl.output_file # "null"
                                              THEN 1 ELSE 0),
                        !.fek_released =
                            IF dl.decryption_context.ok
                            THEN Some(decrypt_file_finalize(dl.decryption_context.data))
                            ELSE @]
          /\ dl' = IF flush_ok
                     THEN [dl EXCEPT !.output_file = "null", !.is_finalized = TRUE]
                     ELSE dl
          /\ call' = [NoCall EXCEPT !.op = "download_finalize", !.returned = TRUE,
                                    !.ret = ISize(IF flush_ok THEN SUCCESS
                                                  ELSE ERROR_IO_FAILED)]
    /\ hist' = [hist EXCEPT !.finalizes = @ + 1]
    /\ UNCHANGED <<otherVars, file_data, master_key, enc, exp, engine, cancel_flag, dst, up, job>>

DownloadFree ==
    /\ engine = "download" /\ dl.alloc = "live"
    /\ heap' = [heap EXCEPT
                  !.dec_ctx_freed = @ + (IF ~dl.is_finalized /\ dl.decryption_context.ok
                                           THEN 1 ELSE 0),
                  !.file_freed = @ + (IF ~dl.is_finalized /\ dl.output_file # "null"
                                        THEN 1 ELSE 0),
                  !.fek_released =
                      IF ~dl.is_finalized /\ dl.decryption_context.ok
                      THEN Some(decrypt_file_finalize(dl.decryption_context.data))
                      ELSE @,
                  !.session_freed = @ + 1]
    /\ dl' = [dl EXCEPT !.alloc = "freed"]
    /\ call' = [NoCall EXCEPT !.op = "download_free", !.returned = TRUE]
    /\ UNCHANGED <<otherVars, file_data, master_key, enc, exp, engine, cancel_flag, dst, up, job, hist>>

(***************************************************************************)
(* copy.rs: copy_file_streaming                                            *)
(***************************************************************************)
\* The call has returned ret.
CopyReturn(ret) ==
    /\ call' = [call EXCEPT !.returned = TRUE, !.ret = ISize(ret)]
    /\ hist' = [Returned(hist, ISize(ret)) EXCEPT !.done = TRUE]

\* From the entry to the creation of the destination (copy.rs:71-115).
CopyFileStreamingOpen ==
    /\ engine = "copy" /\ job.pc = "idle"
    /\ \E chunk_size \in ChunkSizeArgs, fs \in {"ok", "no_source", "no_permission"} :
          IF fs # "ok"
          THEN /\ job' = [job EXCEPT !.pc = "done"]
               /\ call' = [NoCall EXCEPT !.op = "copy_file_streaming", !.returned = TRUE,
                              !.ret = ISize(IF fs = "no_source" THEN ERROR_FILE_NOT_FOUND
                                            ELSE ERROR_PERMISSION_DENIED)]
               /\ hist' = [Returned(hist, call'.ret) EXCEPT !.done = TRUE]
               /\ dst' = dst
          ELSE /\ job' = [job EXCEPT !.pc = "poll",
                                     !.total_bytes = Len(file_data),
                                     !.bytes_copied = 0,
                                     !.chunk_size = ClampChunkSize(chunk_size)]
               /\ call' = [NoCall EXCEPT !.op = "copy_file_streaming"]
               /\ dst' = [exists |-> TRUE, data |-> <<>>]
               /\ hist' = [hist EXCEPT !.creates = @ + 1]
    /\ UNCHANGED <<otherVars, file_data, master_key, enc, exp, heap, engine, cancel_flag, up, dl>>

\* The head of the loop (copy.rs:118-121).
CopyFileStreamingPoll ==
    /\ engine = "copy" /\ job.pc = "poll"
    /\ IF is_cancelled(cancel_flag)
         THEN /\ job' = [job EXCEPT !.pc = "done"]
              /\ call' = [call EXCEPT !.returned = TRUE, !.ret = ISize(ERROR_CANCELLED)]
              /\ hist' = [Cancelled(hist, ISize(ERROR_CANCELLED)) EXCEPT !.done = TRUE]
         ELSE /\ job' = [job EXCEPT !.pc = "chunk"]
              /\ UNCHANGED <<call, hist>>
    /\ UNCHANGED <<otherVars, file_data, master_key, enc, exp, heap, engine, cancel_flag, dst, up, dl>>

\* One read and write (copy.rs:123-142), or, at end of file, the final
\* progress report and the flush (copy.rs:145-155).
CopyFileStreamingChunk ==
    /\ engine = "copy" /\ job.pc = "chunk"
    /\ \E io \in {"ok", "read_fails", "write_fails"} :
          LET bytes_read == Min(job.chunk_size, Len(file_data) - job.bytes_copied)
              chunk == SubSeq(file_data, job.bytes_copied + 1, job.bytes_copied + bytes_read)
          IN  IF io = "read_fails"
              THEN /\ job' = [job EXCEPT !.pc = "done"]
                   /\ CopyReturn(ERROR_IO_FAILED)
                   /\ dst' = dst
              ELSE IF bytes_read = 0
              THEN /\ job' = [job EXCEPT !.pc = "done"]
                   /\ call' = [call EXCEPT !.returned = TRUE,
                                 !.ret = ISize(IF io = "ok" THEN SUCCESS ELSE ERROR_IO_FAILED),
                                 !.eof = TRUE,
                                 !.progress = <<job.total_bytes, job.total_bytes>>]
                   /\ hist' = [Returned(hist, call'.ret) EXCEPT !.done = TRUE]
                   /\ dst' = dst
              ELSE IF io = "write_fails"
              THEN /\ job' = [job EXCEPT !.pc = "done"]
                   /\ CopyReturn(ERROR_IO_FAILED)
                   /\ dst' = dst
              ELSE /\ job' = [job EXCEPT !.pc = "poll", !.bytes_copied = @ + bytes_read]
                   /\ dst' = [dst EXCEPT !.data = @ \o chunk]
                   /\ call' = [call EXCEPT !.progress =
                                  <<job.bytes_copied + bytes_read, job.total_bytes>>]
                   /\ hist' = Wrote(hist)
    /\ UNCHANGED <<otherVars, file_data, master_key, enc, exp, heap, engine, cancel_flag, up, dl>>

(***************************************************************************)
(* copy.rs: the cloud-to-cloud relay                                       *)
(***************************************************************************)
CloudCopyInit ==
    /\ engine = "cloud" /\ job.alloc = "none"
    /\ \E chunk_size \in ChunkSizeArgs, total_bytes \in {0} :
          job' = [NoJob EXCEPT !.alloc = "live",
                               !.chunk_size = ClampChunkSize(chunk_size),
                               !.total_bytes = total_bytes]
    /\ heap' = [heap EXCEPT !.session = @ + 1]
    /\ UNCHANGED <<otherVars, file_data, master_key, enc, exp, engine, cancel_flag, dst, up, dl,
                   hist, call>>

\* cloud_copy_process_chunk up to the cancellation check (copy.rs:1004-1015).
CloudCopyProcessChunkPoll ==
    /\ engine = "cloud" /\ job.alloc = "live" /\ job.pc = "idle"
    /\ hist.calls < MaxCalls
    /\ IF is_cancelled(cancel_flag)
         THEN /\ call' = [NoCall EXCEPT !.op = "cloud_copy_process_chunk",
                                        !.returned = TRUE,
                                        !.ret = ISize(ERROR_CANCELLED)]
              /\ hist' = Cancelled(hist, ISize(ERROR_CANCELLED))
              /\ job' = job
         ELSE /\ call' = [NoCall EXCEPT !.op = "cloud_copy_process_chunk"]
              /\ hist' = hist
              /\ job' = [job EXCEPT !.pc = "body"]
    /\ UNCHANGED <<otherVars, file_data, master_key, enc, exp, heap, engine, cancel_flag, dst, up, dl>>

\* cloud_copy_process_chunk from the read callback on (copy.rs:1027-1059).
CloudCopyProcessChunkBody ==
    /\ engine = "cloud" /\ job.pc = "body"
    /\ \E bytes_read \in ReadResults, write_result \in WriteResults :
          /\ ~IsPositive(bytes_read) => write_result = 0
          /\ IF IsNegative(bytes_read)
             THEN /\ call' = [call EXCEPT !.returned = TRUE, !.ret = bytes_read,
                                          !.read = bytes_read]
                  /\ hist' = Returned(hist, bytes_read)
                  /\ job' = [job EXCEPT !.pc = "idle"]
             ELSE IF IsZero(bytes_read)
             THEN /\ call' = [call EXCEPT !.returned = TRUE, !.ret = ISize(0),
                                          !.read = bytes_read, !.eof = TRUE]
                  /\ hist' = [Returned(hist, ISize(0)) EXCEPT !.done = TRUE]
                  /\ job' = [job EXCEPT !.pc = "idle"]
             ELSE IF write_result < 0
             THEN /\ call' = [call EXCEPT !.returned = TRUE, !.ret = ISize(write_result),
                                          !.read = bytes_read, !.write_invoked = TRUE,
                                          !.write = write_result]
                  /\ hist' = Returned(hist, ISize(write_result))
                  /\ job' = [job EXCEPT !.pc = "idle"]
             ELSE /\ call' = [call EXCEPT !.returned = TRUE, !.ret = bytes_read,
                                          !.read = bytes_read, !.write_invoked = TRUE,
                                          !.write = write_result]
                  /\ hist' = [Wrote(Returned(hist, bytes_read)) EXCEPT
                                !.sum_ok = @ + bytes_read.lo]
                  /\ job' = [job EXCEPT !.pc = "idle",
                                        !.bytes_copied = @ + bytes_read.lo]
    /\ UNCHANGED <<otherVars, file_data, master_key, enc, exp, heap, engine, cancel_flag, dst, up, dl>>

(***************************************************************************)
(* unified_copy.rs                                                         *)
(***************************************************************************)
UnifiedCopyInit ==
    /\ engine = "unified" /\ job.alloc = "none"
    /\ \E total_files \in {1, 2}, chunk_size \in ChunkSizeArgs :
          job' = [NoJob EXCEPT !.alloc = "live",
                               !.total_bytes = MaxFileLen,
                               !.total_files = total_files,
                               !.chunk_size = ClampChunkSize(chunk_size)]
    /\ heap' = [heap EXCEPT !.session = @ + 1]
    /\ UNCHANGED <<otherVars, file_data, master_key, enc, exp, engine, cancel_flag, dst, up, dl,
                   hist, call>>

\* unified_copy_file up to the loop (unified_copy.rs:163-186).
UnifiedCopyFileEnter ==
    /\ engine = "unified" /\ job.alloc = "live" /\ job.pc = "idle"
    /\ hist.calls < 2
    /\ \E file_size \in {0, 1, MaxChunkSize}, buffer_size \in {MaxChunkSize} :
          job' = [job EXCEPT !.pc = "loop", !.file_size = file_size,
                             !.buffer_size = buffer_size,
                             !.local_file_offset = 0,
                             !.bytes_copied_this_file = 0]
    /\ call' = [NoCall EXCEPT !.op = "unified_copy_file"]
    /\ hist' = [hist EXCEPT !.last = Null, !.cancel_seen = FALSE]
    /\ UNCHANGED <<otherVars, file_data, master_key, enc, exp, heap, engine, cancel_flag, dst, up, dl>>

\* After the loop (unified_copy.rs:260-269).
UnifiedCopyFileLeave(eof) ==
    LET files_processed == job.files_processed + 1
        ret == IF files_processed < job.total_files THEN 1 ELSE 0
    IN  /\ job' = [job EXCEPT !.pc = "idle", !.files_processed = files_processed,
                              !.file_offset = 0]
        /\ call' = [call EXCEPT !.returned = TRUE, !.ret = ISize(ret), !.eof = eof]
        /\ hist' = Returned(hist, ISize(ret))

\* The loop condition and the cancellation check (unified_copy.rs:190-194).
UnifiedCopyFileLoop ==
    /\ engine = "unified" /\ job.pc = "loop"
    /\ IF ~(job.bytes_copied_this_file < job.file_size)
         THEN UnifiedCopyFileLeave(call.eof)
         ELSE IF is_cancelled(cancel_flag)
         THEN /\ job' = [job EXCEPT !.pc = "idle"]
              /\ call' = [call EXCEPT !.returned = TRUE,
                                      !.ret = ISize(UNIFIED_ERROR_CANCELLED)]
              /\ hist' = Cancelled(hist, ISize(UNIFIED_ERROR_CANCELLED))
         ELSE /\ job' = [job EXCEPT !.pc = "body"]
              /\ UNCHANGED <<call, hist>>
    /\ UNCHANGED <<otherVars, file_data, master_key, enc, exp, heap, engine, cancel_flag, dst, up, dl>>

\* One iteration from the read callback on (unified_copy.rs:196-257).
UnifiedCopyFileBody ==
    /\ engine = "unified" /\ job.pc = "body"
    /\ \E bytes_read \in ReadResults, write_result \in WriteResults :
          /\ ~IsPositive(bytes_read) => write_result = 0
          /\ LET bytes_to_read ==
                     Min(Min(job.file_size - job.bytes_copied_this_file, job.chunk_size),
                         job.buffer_size)
             IN  IF IsNegative(bytes_read)
                 THEN /\ job' = [job EXCEPT !.pc = "idle"]
                      /\ call' = [call EXCEPT !.returned = TRUE,
                                              !.ret = ISize(AsI32(bytes_read)),
                                              !.read = bytes_read,
                                              !.write_invoked = FALSE]
                      /\ hist' = Returned(hist, ISize(AsI32(bytes_read)))
                 ELSE IF IsZero(bytes_read)
                 THEN UnifiedCopyFileLeave(TRUE)
                 ELSE IF write_result < 0
                 THEN /\ job' = [job EXCEPT !.pc = "idle"]
                      /\ call' = [call EXCEPT !.returned = TRUE,
                                              !.ret = ISize(write_result),
                                              !.read = bytes_read,
                                              !.write_invoked = TRUE,
                                              !.write = write_result]
                      /\ hist' = Returned(hist, ISize(write_result))
                 ELSE /\ job' = [job EXCEPT
                                   !.pc = "loop",
                                   !.local_file_offset = @ + bytes_read.lo,
                                   !.bytes_copied_this_file = @ + bytes_read.lo,
                                   !.bytes_copied = @ + bytes_read.lo]
                      /\ call' = [call EXCEPT
                                   !.read = bytes_read, !.write_invoked = TRUE,
                                   !.write = write_result,
                                   !.progress = <<job.bytes_copied + bytes_read.lo,
                                                  job.total_bytes,
                                                  job.files_processed + 1,
                                                  job.total_files>>]
                      /\ hist' = [Wrote(hist) EXCEPT !.sum_ok = @ + bytes_read.lo]
    /\ UNCHANGED <<otherVars, file_data, master_key, enc, exp, heap, engine, cancel_flag, dst, up, dl>>

TransferNext ==
    \/ SetCancel
    \/ ClearCancel
    \/ UploadInit
    \/ UploadProcessChunkPoll
    \/ UploadProcessChunkBody
    \/ UploadGetHeader
    \/ UploadFinalize
    \/ UploadFree
    \/ DownloadInit
    \/ DownloadAppendChunk
    \/ DownloadAppendDecrypted
    \/ DownloadFinalize
    \/ DownloadFree
    \/ CopyFileStreamingOpen
    \/ CopyFileStreamingPoll
    \/ CopyFileStreamingChunk
    \/ CloudCopyInit
    \/ CloudCopyProcessChunkPoll
    \/ CloudCopyProcessChunkBody
    \/ UnifiedCopyInit
    \/ UnifiedCopyFileEnter
    \/ UnifiedCopyFileLoop
    \/ UnifiedCopyFileBody

SpecTransfer == TransferInit /\ [][TransferNext]_vars

(***************************************************************************)
(* Properties of the container format and the whole-file routines.         *)
(***************************************************************************)
\* C1: for every plaintext P (empty, or of a length that is no multiple of
\* the chunk size) and every 32-byte master key K, decrypt_file_streaming
\* of encrypt_file_streaming(P, K) under K succeeds and returns exactly P.
C1_RoundTrip ==
    (exp.op = "decrypt_file" /\ exp.key = master_key)
        => (exp.res.ok /\ exp.res.data = file_data)

\* A round trip of a file of several chunks, the last one partial.
C1_Witness ==
    /\ exp.op = "decrypt_file" /\ exp.key = master_key /\ exp.res.ok
    /\ Len(file_data) > DEFAULT_CHUNK_SIZE
    /\ Len(file_data) % DEFAULT_CHUNK_SIZE # 0

\* C2: replacing the chunk-index field, the nonce or the payload-length
\* field of a frame by that field of another frame of the same file (a
\* different value) makes the decryption of that frame fail, by
\* decrypt_chunk and by decrypt_file_streaming.
C2_ReplacedFieldFails ==
    (exp.op = "replace" /\ exp.input # enc.chunks[exp.i])
        => (~exp.res.ok /\ ~exp.res2.ok)

\* C5: decrypt_file_init creates a session exactly when the input holds a
\* well-formed header (magic, version 1) and the whole wrapped FEK, and the
\* FEK unwraps under the key given; in every other case (fewer than 12
\* bytes, 12 bytes of 0xFF, wrong magic or version, fewer than 12 + L bytes,
\* a wrapped FEK that does not authenticate, another key) it returns null
\* and leaves nothing allocated.
C5_InitRejectsMalformed ==
    exp.op = "decrypt_init" =>
        /\ exp.res.ok <=> (exp.kind = "prefix"
                           /\ exp.n >= HEADER_SIZE + Len(enc.wrapped_fek))
        /\ ~exp.res.ok => heap.dec_ctx = 0
        /\ exp.res.ok => (heap.dec_ctx = 1 /\ exp.res.data.chunk_index = 0)

\* The malformed container of 12 bytes of 0xFF was refused.
C5_Witness ==
    /\ exp.op = "decrypt_init" /\ exp.kind = "ff12"
    /\ exp.input = Repeat(255, HEADER_SIZE)
    /\ ~exp.res.ok /\ heap.dec_ctx = 0

(***************************************************************************)
(* Properties of the transfer engines.                                     *)
(***************************************************************************)
\* C3: every prefix produced with encryption enabled starts with the magic
\* 0x434E4552 little-endian, has byte 4 equal to 1 and bytes 5..7 zero, and
\* carries at offset 8 the length of the wrapped FEK that follows;
\* parse_header gives back (MAGIC, 1, that length).  Stated for the header
\* upload_get_header hands out for a session that encrypts (should_encrypt
\* set and a 32-byte master key given).
C3_PrefixWellFormed ==
    (/\ call.op = "upload_get_header" /\ call.ret = ISize(SUCCESS)
     /\ up.should_encrypt /\ up.master_key # <<>>)
        => /\ Len(call.header) = HEADER_SIZE
           /\ SubSeq(call.header, 1, 4) = LeBytes32(MAGIC)
           /\ call.header[5] = 1
           /\ SubSeq(call.header, 6, 8) = <<0, 0, 0>>
           /\ up.encryption_context.ok
           /\ FromLe32(SubSeq(call.header, 9, 12))
                = Len(up.encryption_context.data.wrapped_fek)
           /\ parse_header(call.header)
                = Some([magic |-> MAGIC, version |-> 1,
                        fek_length |-> Len(up.encryption_context.data.wrapped_fek)])

\* C4: the frames of one file carry the indexes 0, 1, 2, ... in order: the
\* i-th frame of encrypt_file_streaming has index i, and the frame built by
\* a successful upload_process_chunk call has as index the number of
\* successful calls before it, whatever calls returning 0, CANCELLED or an
\* error came in between.
C4_FrameIndexes ==
    /\ \A i \in 1..Len(enc.chunks) : FromLe32(SubSeq(enc.chunks[i], 1, 4)) = i - 1
    /\ engine = "upload" => up.chunk_index = hist.n_success
    /\ (call.op = "upload_process_chunk" /\ call.returned /\ IsPositive(call.ret)
        /\ call.frame # <<>>)
          => FromLe32(SubSeq(call.frame, 1, 4)) = hist.n_success - 1

\* A second frame produced after a call that returned CANCELLED.
C4_Witness ==
    /\ call.op = "upload_process_chunk" /\ call.returned /\ IsPositive(call.ret)
    /\ call.frame # <<>>
    /\ hist.n_success = 2 /\ hist.calls > hist.n_success
    /\ hist.cancel_when = "cleared"

\* The operation has given back a value that says it is complete.
Completed ==
    /\ engine \in {"copy", "upload", "cloud", "unified"}
    /\ hist.last.ok
    /\ \/ IsZero(hist.last.data)
       \/ engine = "unified" /\ hist.last.data = ISize(1)

\* Nothing was left to transfer.
AllTransferred ==
    CASE engine = "copy"   -> dst.data = file_data
      [] engine = "upload" -> up.bytes_read >= up.total_bytes
      [] engine = "cloud"  -> call.eof
      [] OTHER             -> TRUE

C7_CancelledBeforeStart ==
    (/\ hist.cancel_when = "before"
     /\ engine \in {"upload", "download", "copy", "cloud"}
     /\ hist.first.ok
     /\ hist.first.data \notin {ISize(ERROR_FILE_NOT_FOUND),
                                ISize(ERROR_PERMISSION_DENIED)})
        => /\ hist.first.data = ISize(ERROR_CANCELLED)
           /\ hist.creates = 0

\* C8: whatever the state of an upload or download session, a second
\* finalize and a free after finalize release no resource twice: the
\* EncryptionContext, the DecryptionContext and the file handle are each
\* released at most once.
C8_ReleasedAtMostOnce ==
    /\ heap.enc_ctx_freed <= heap.enc_ctx
    /\ heap.dec_ctx_freed <= heap.dec_ctx
    /\ heap.file_freed <= heap.file
    /\ heap.session_freed <= heap.session

\* C9: a positive return of upload_process_chunk is the number of bytes the
\* call placed in the caller's buffer, 0 comes only at end of file, and
\* total_bytes stays what init set.
C9_ReturnIsBytesPlaced ==
    /\ engine = "upload" /\ up.alloc # "none" => up.total_bytes = Len(file_data)
    /\ (call.op = "upload_process_chunk" /\ call.returned)
          => /\ IsPositive(call.ret) => call.ret.lo = call.placed
             /\ IsZero(call.ret) => up.bytes_read >= up.total_bytes

\* C10: in the relay a negative result e of the read callback is returned
\* as e without the write callback being invoked, a negative result e of
\* the write callback is returned as e, and bytes_copied is the sum of the
\* sizes of the chunks whose write did not fail.
C10_RelayReturns ==
    engine \in {"cloud", "unified"}
        => /\ job.bytes_copied = hist.sum_ok
           /\ call.returned =>
                /\ IsNegative(call.read)
                      => (call.ret = call.read /\ ~call.write_invoked)
                /\ (call.write_invoked /\ call.write < 0)
                      => call.ret = ISize(call.write)

(***************************************************************************)
(* copy.rs: folder copy.  A tree is a set of entries [path, kind]; a path  *)
(* is the sequence of file names from the root, a file name is the byte    *)
(* it starts with (66 "B", 97 "a", 100 "d", 101 "e", 102 "f"), so that the *)
(* order of OsString is the order of the integers.                         *)
(***************************************************************************)
MaxFolderCalls == 5

RootNames == {66, 97, 100}
ChildNames == {101, 102}

\* The source folders: each root name is absent, a file, or a directory
\* holding any of the child names as files.
SourceTrees ==
    { {[path |-> <<n>>, kind |-> k[n]] : n \in {x \in RootNames : k[x] # "absent"}}
        \cup UNION {{[path |-> <<n, m>>, kind |-> "file"] : m \in c[n]} :
                       n \in {x \in RootNames : k[x] = "dir"}}
      : k \in [RootNames -> {"absent", "file", "dir"}],
        c \in [RootNames -> SUBSET ChildNames] }

\* metadata.len() of a source file
FileSize(path) == Len(path)

\* fs::read_dir(dir)
ReadDir(tree, dir) ==
    {e \in tree : Len(e.path) = Len(dir) + 1 /\ SubSeq(e.path, 1, Len(dir)) = dir}

\* entries.sort_by_key(|e| e.file_name())
RECURSIVE SortByFileName(_)
SortByFileName(entries) ==
    IF entries = {} THEN <<>>
    ELSE LET first == CHOOSE e \in entries :
                         \A o \in entries : e.path[Len(e.path)] <= o.path[Len(o.path)]
         IN  <<first>> \o SortByFileName(entries \ {first})

\* count_files_and_size: the number of regular files below the root.
count_files_and_size(tree) == Cardinality({e \in tree : e.kind = "file"})

RECURSIVE SumFileSizes(_)
SumFileSizes(files) ==
    IF files = {} THEN 0
    ELSE LET f == CHOOSE e \in files : TRUE
         IN  FileSize(f.path) + SumFileSizes(files \ {f})

\* copy_next_file_impl with ctx.source_root = source_root and ctx.dest_root
\* = dest_root, from the entry at position i of the sorted listing on:
\* [f (the folder state), ret].
RECURSIVE copy_next_file_impl(_, _, _, _, _)
copy_next_file_impl(f, cancelled, source_root, dest_root, i) ==
    LET entries == SortByFileName(ReadDir(f.source, source_root))
    IN  IF i > Len(entries) THEN [f |-> f, ret |-> 0]
        ELSE IF is_cancelled(cancelled) THEN [f |-> f, ret |-> ERROR_CANCELLED]
        ELSE LET entry     == entries[i]
                 file_name == entry.path[Len(entry.path)]
                 dest_path == Append(dest_root, file_name)
             IN  IF entry.kind = "file"
                 THEN [f |-> [f EXCEPT
                                !.dest = (@ \ {[path |-> dest_path, kind |-> "dir"]})
                                            \cup {[path |-> dest_path, kind |-> "file"]},
                                !.bytes_copied = @ + FileSize(entry.path),
                                !.files_processed = @ + 1,
                                !.copied = Append(@, entry.path)],
                       ret |-> 1]
                 ELSE IF \E e \in f.dest : e.path = dest_path
                 THEN [f |-> f, ret |-> ERROR_PERMISSION_DENIED]
                 ELSE LET result ==
                              copy_next_file_impl(
                                  [f EXCEPT !.dest = @ \cup {[path |-> dest_path,
                                                              kind |-> "dir"]}],
                                  cancelled, entry.path, dest_path, 1)
                      IN  IF result.ret < 0 THEN result
                          ELSE copy_next_file_impl(result.f, cancelled, source_root,
                                                   dest_root, i + 1)

FolderInit ==
    /\ file_data = <<>> /\ master_key = <<>> /\ enc = NoEnc /\ exp = NoExp
    /\ heap = NoHeap /\ engine = "folder" /\ cancel_flag \in BOOLEAN
    /\ dst = NoDst /\ up = NoUpload /\ dl = NoDownload /\ job = NoJob
    /\ hist = NoHist /\ call = NoCall
    /\ \E tree \in SourceTrees, dest_exists \in BOOLEAN :
          folder = [NoFolder EXCEPT !.source = tree, !.dest_exists = dest_exists]
    /\ throttle = NoThrottle /\ index = NoIndex /\ walk = NoWalk
    /\ history = NoHistory /\ indexer = NoIndexer /\ fuzzy = NoFuzzy

\* folder_copy_init: DirBuilder::new().create(&dst) fails on an existing
\* destination.
FolderCopyInit ==
    /\ engine = "folder" /\ folder.alloc = "none" /\ ~folder.dest_exists
    /\ folder' = [folder EXCEPT
                    !.alloc = "live", !.dest_exists = TRUE,
                    !.total_files = count_files_and_size(folder.source),
                    !.total_bytes = SumFileSizes({e \in folder.source : e.kind = "file"})]
    /\ UNCHANGED notFolder

\* folder_copy_next_file
FolderCopyNextFile ==
    /\ engine = "folder" /\ folder.alloc = "live" /\ folder.calls < MaxFolderCalls
    /\ \E r \in {IF folder.files_processed >= folder.total_files
                   THEN [f |-> folder, ret |-> 0]
                 ELSE IF is_cancelled(cancel_flag)
                   THEN [f |-> folder, ret |-> ERROR_CANCELLED]
                 ELSE copy_next_file_impl(folder, cancel_flag, <<>>, <<>>, 1)} :
          folder' = [r.f EXCEPT !.calls = @ + 1, !.rets = Append(@, r.ret)]
    /\ UNCHANGED notFolder

\* folder_copy_free
FolderCopyFree ==
    /\ engine = "folder" /\ folder.alloc = "live"
    /\ folder' = [folder EXCEPT !.alloc = "freed"]
    /\ UNCHANGED notFolder

FolderNext == FolderCopyInit \/ FolderCopyNextFile \/ FolderCopyFree

SpecFolder == FolderInit /\ [][FolderNext]_vars

(***************************************************************************)
(* Properties of the folder copy.                                          *)
(***************************************************************************)
\* The last return of folder_copy_next_file says the copy is done.
FolderDone ==
    /\ folder.rets # <<>>
    /\ folder.rets[Len(folder.rets)] = 0

\* C11: over successive folder_copy_next_file calls without cancellation
\* (the model has no I/O errors), no file is copied twice, the files of one
\* directory are copied in ascending order of their names, and when the
\* iterator reports done every regular file of the source has been copied.
C11_EachFileOnceInOrder ==
    (engine = "folder" /\ ~cancel_flag) =>
        /\ \A i, j \in DOMAIN folder.copied :
              i < j =>
                 /\ folder.copied[i] # folder.copied[j]
                 /\ (/\ Len(folder.copied[i]) = Len(folder.copied[j])
                     /\ SubSeq(folder.copied[i], 1, Len(folder.copied[i]) - 1)
                          = SubSeq(folder.copied[j], 1, Len(folder.copied[j]) - 1))
                       => folder.copied[i][Len(folder.copied[i])]
                            < folder.copied[j][Len(folder.copied[j])]
        /\ FolderDone =>
              {folder.copied[i] : i \in DOMAIN folder.copied}
                 = {e.path : e \in {x \in folder.source : x.kind = "file"}}

\* C12: when folder_copy_next_file returns 0, files_processed equals
\* total_files and the destination holds the tree of the source, empty
\* subdirectories included; and no call fails because a destination
\* subdirectory exists already.
C12_SameTreeWhenDone ==
    (engine = "folder" /\ ~cancel_flag) =>
        /\ FolderDone => (/\ folder.files_processed = folder.total_files
                          /\ folder.dest = folder.source)
        /\ \A i \in DOMAIN folder.rets : folder.rets[i] >= 0

(***************************************************************************)
(* file_io.rs: ProgressThrottler, and a session that gates its progress    *)
(* callback with should_update after every chunk (upload.rs:264-273,       *)
(* download.rs:309-313, copy.rs:135-142, copy.rs:354-363).  Time is in     *)
(* milliseconds.                                                           *)
(***************************************************************************)
MaxClock == 1200
MaxChunks == 4
MaxTotal == 4

\* Milliseconds that pass between two steps of the session.
ClockSteps == {100, 500}

\* Sessions with a throttler; copy_file_streaming makes a last, ungated
\* callback (copy.rs:145-148).
ThrottledSessions == {"upload", "download", "copy", "folder"}

\* ProgressThrottler::should_update: [t (the throttler fields), should_update]
should_update(t, now, bytes_processed, bytes_transferred) ==
    LET elapsed == now - t.last_update_time
        update  == \/ elapsed >= t.update_interval_ms
                   \/ bytes_processed = 0
                   \/ t.last_bytes_processed # bytes_processed
    IN  [t |-> IF update
                 THEN [t EXCEPT !.last_update_time = now,
                                !.last_bytes_processed = bytes_processed,
                                !.last_bytes_transferred = bytes_transferred]
                 ELSE t,
         should_update |-> update]

\* cb(bytes, total, ..): the callback is remembered with the time it was made.
ProgressCallback(t, bytes, total) ==
    [t EXCEPT !.prev = t.last, !.last = Some([time |-> t.now, bytes |-> bytes,
                                              total |-> total])]

\* ProgressThrottler::new(500) at the creation of the session.
ProgressInit ==
    /\ CoreIdle /\ engine = "progress"
    /\ folder = NoFolder /\ index = NoIndex /\ walk = NoWalk
    /\ history = NoHistory /\ indexer = NoIndexer /\ fuzzy = NoFuzzy
    /\ \E kind \in ThrottledSessions, total \in 0..MaxTotal :
          throttle = [NoThrottle EXCEPT !.kind = kind, !.update_interval_ms = 500,
                                        !.total = total]

\* Instant::now() moves on.
ClockTick ==
    /\ engine = "progress" /\ throttle.now < MaxClock
    /\ \E d \in ClockSteps : throttle' = [throttle EXCEPT !.now = @ + d]
    /\ UNCHANGED notThrottle

\* One chunk (one file of a folder copy) is transferred: the counter is
\* advanced and the callback is made if should_update says so.
ProcessChunk ==
    /\ engine = "progress" /\ ~throttle.finished
    /\ throttle.chunks < MaxChunks /\ throttle.bytes < throttle.total
    /\ \E n \in 1..(throttle.total - throttle.bytes) :
          \E r \in {should_update(throttle, throttle.now, throttle.bytes + n,
                                  throttle.total)} :
              throttle' = LET t == [r.t EXCEPT !.bytes = @ + n, !.chunks = @ + 1]
                          IN  IF r.should_update
                                THEN ProgressCallback(t, t.bytes, t.total)
                                ELSE t
    /\ UNCHANGED notThrottle

\* copy_file_streaming at end of file: cb(total_bytes, total_bytes, 1, 1, ..)
FinalProgress ==
    /\ engine = "progress" /\ throttle.kind = "copy" /\ ~throttle.finished
    /\ throttle.bytes = throttle.total
    /\ throttle' = [ProgressCallback(throttle, throttle.total, throttle.total)
                       EXCEPT !.finished = TRUE]
    /\ UNCHANGED notThrottle

ProgressNext == ClockTick \/ ProcessChunk \/ FinalProgress

SpecProgress == ProgressInit /\ [][ProgressNext]_vars

\* C13: between two consecutive progress callbacks of a session either the
\* configured interval has elapsed on the clock, or the later callback is
\* the terminal one, with bytes equal to total.
C13_CallbacksThrottled ==
    (engine = "progress" /\ throttle.prev.ok) =>
        \/ throttle.last.data.time - throttle.prev.data.time
              >= throttle.update_interval_ms
        \/ throttle.last.data.bytes = throttle.last.data.total

\* The byte counter of the transfer session.
BytesCounter ==
    CASE engine = "upload"   -> up.bytes_read
      [] engine = "download" -> dl.bytes_written
      [] OTHER               -> job.bytes_copied

\* A step of a transfer session keeps the counter and the reported bytes
\* from going down.
BytesStep ==
    engine \in Engines =>
        /\ BytesCounter' >= BytesCounter
        /\ (call.progress # <<>> /\ call'.progress # <<>>)
              => (call'.progress[1] >= call.progress[1])

\* C14: within a session the byte counter never decreases, and neither do
\* the bytes values passed to the progress callback by one call and the
\* next; for a download this holds for every interleaving of
\* download_append_chunk and download_append_decrypted.
C14_BytesNeverDecrease == [][BytesStep]_vars

\* ---------------------------------------------------------------------
\* Search index (search/index.rs): SearchIndex with its document store,
\* its inverted word index and its account index.  A string is the
\* sequence of its characters (code points); a HashMap is a function whose
\* domain is the set of its keys; a Vec is a sequence.
\* ---------------------------------------------------------------------

\* add_document calls allowed in one behaviour.
MaxAdds == 2

NodeIds == {"1", "2"}
AccountIds == {"acc1", "acc2"}
\* "AB", "a a", "b a", "é a"
Names == {<<65, 66>>, <<97, 32, 97>>, <<98, 32, 97>>, <<233, 32, 97>>}
\* "a", "b", "AB", "b a"
Queries == {<<97>>, <<98>>, <<65, 66>>, <<98, 32, 97>>}
Limits == {1, 10}

\* SearchDocument: the fields the index reads (provider, email, is_folder
\* and parent_id are carried along unread).
SearchDocuments == [node_id : NodeIds, account_id : AccountIds, name : Names]

\* str::to_lowercase on ASCII and Latin-1 letters.
to_lowercase(s) ==
    [i \in 1..Len(s) |->
        IF s[i] \in 65..90 \/ s[i] \in ((192..222) \ {215}) THEN s[i] + 32 ELSE s[i]]

\* char::len_utf8
len_utf8(c) == IF c < 128 THEN 1 ELSE IF c < 2048 THEN 2 ELSE 3

\* str::split_whitespace: the maximal runs of non-space characters.
RECURSIVE split_whitespace(_)
split_whitespace(s) ==
    IF s = <<>> THEN <<>>
    ELSE IF s[1] = 32 THEN split_whitespace(Tail(s))
    ELSE LET n == CHOOSE i \in 1..(Len(s) + 1) :
                      /\ (i = Len(s) + 1 \/ s[i] = 32)
                      /\ \A j \in 1..(i - 1) : s[j] # 32
         IN <<SubSeq(s, 1, n - 1)>> \o split_whitespace(SubSeq(s, n, Len(s)))

\* str::starts_with, str::contains
starts_with(s, q) == Len(q) <= Len(s) /\ SubSeq(s, 1, Len(q)) = q
contains(s, q) == \E i \in 0..(Len(s) - Len(q)) : SubSeq(s, i + 1, i + Len(q)) = q

\* The number of characters before the first occurrence of q in s.
FirstMatch(s, q) ==
    CHOOSE i \in 0..(Len(s) - Len(q)) :
        /\ SubSeq(s, i + 1, i + Len(q)) = q
        /\ \A j \in 0..(i - 1) : SubSeq(s, j + 1, j + Len(q)) # q

\* str::find: the BYTE offset of the first occurrence of q in s.
find(s, q) == SeqSum([k \in 1..FirstMatch(s, q) |-> len_utf8(s[k])])

\* s.chars().nth(k): the k-th CHARACTER (from 0), -1 for None.
chars_nth(s, k) == IF k >= 0 /\ k < Len(s) THEN s[k + 1] ELSE -1

\* HashMap::insert, HashMap::remove, entry(k).or_insert_with(Vec::new).push(v)
insert(m, k, v) == [x \in DOMAIN m \cup {k} |-> IF x = k THEN v ELSE m[x]]
remove(m, k) == [x \in DOMAIN m \ {k} |-> m[x]]
entry_push(m, k, v) ==
    [x \in DOMAIN m \cup {k} |->
        IF x = k THEN (IF k \in DOMAIN m THEN m[k] ELSE <<>>) \o <<v>> ELSE m[x]]

\* ids.retain(|id| id != node_id); remove the entry once it is empty.
retain_ne(m, k, node_id) ==
    IF k \notin DOMAIN m THEN m
    ELSE LET ids == SelectSeq(m[k], LAMBDA id : id # node_id)
         IN IF ids = <<>> THEN remove(m, k) ELSE insert(m, k, ids)

\* The value the last call returned to its caller, with the arguments of
\* the call.
NoSearch == [fn |-> "none", query |-> <<>>, account_id |-> "", limit |-> 0,
             results |-> <<>>, ret |-> Null]

\* SearchIndex::new
new_index == [alloc |-> "live", documents |-> <<>>, name_index |-> <<>>,
              account_index |-> <<>>, adds |-> 0, last |-> NoSearch]

RECURSIVE push_words(_, _, _)
push_words(name_index, words, node_id) ==
    IF words = <<>> THEN name_index
    ELSE push_words(entry_push(name_index, words[1], node_id), Tail(words), node_id)

RECURSIVE retain_words(_, _, _)
retain_words(name_index, words, node_id) ==
    IF words = <<>> THEN name_index
    ELSE retain_words(retain_ne(name_index, words[1], node_id), Tail(words), node_id)

\* SearchIndex::add_document
add_document(ix, doc) ==
    [ix EXCEPT
        !.documents = insert(ix.documents, doc.node_id, doc),
        !.name_index = push_words(ix.name_index,
                                  split_whitespace(to_lowercase(doc.name)), doc.node_id),
        !.account_index = entry_push(ix.account_index, doc.account_id, doc.node_id)]

\* SearchIndex::remove_document: the index afterwards and the value returned.
remove_document(ix, node_id) ==
    IF node_id \in DOMAIN ix.documents
    THEN LET doc == ix.documents[node_id]
         IN [ix |-> [ix EXCEPT
                        !.documents = remove(ix.documents, node_id),
                        !.name_index = retain_words(ix.name_index,
                                           split_whitespace(to_lowercase(doc.name)),
                                           node_id),
                        !.account_index = retain_ne(ix.account_index,
                                                    doc.account_id, node_id)],
             ret |-> Some(doc)]
    ELSE [ix |-> ix, ret |-> Null]

\* SearchIndex::clear
clear(ix) == [ix EXCEPT !.documents = <<>>, !.name_index = <<>>, !.account_index = <<>>]

\* SearchResult, with the score in hundredths.
SearchResult(doc, node_id, score) ==
    [node_id |-> node_id, name |-> doc.name, score |-> score,
     account_id |-> doc.account_id]

\* results.sort_by(|a, b| b.score.partial_cmp(&a.score)): a stable sort,
\* highest score first.
RECURSIVE sort_by_score(_)
sort_by_score(rs) ==
    IF rs = <<>> THEN <<>>
    ELSE LET rest == sort_by_score(Tail(rs))
             k == Cardinality({i \in 1..Len(rest) : rest[i].score > rs[1].score})
         IN SubSeq(rest, 1, k) \o <<rs[1]>> \o SubSeq(rest, k + 1, Len(rest))

take(rs, limit) == SubSeq(rs, 1, Min(limit, Len(rs)))

sort_and_take_TakeFirst(rs, limit) == sort_by_score(take(rs, limit))
\* The end of every search: sort, then take(limit).
sort_and_take(rs, limit) == take(sort_by_score(rs), limit)

\* The score search_exact gives a name that contains the query.
exact_score(name, query) ==
    LET name_lower == to_lowercase(name)
        query_lower == to_lowercase(query)
    IN IF name_lower = query_lower THEN 100
       ELSE IF starts_with(name_lower, query_lower) THEN 90
       ELSE LET match_position == find(name_lower, query_lower)
                position_bonus == IF match_position = 0 THEN 10 ELSE 0
                word_boundary_bonus ==
                    IF match_position = 0
                       \/ chars_nth(name_lower, match_position - 1) = 32
                    THEN 5 ELSE 0
            IN 70 + position_bonus + word_boundary_bonus

\* The orders in which a HashMap with key set S may be iterated.
IterationOrders(S) ==
    {o \in [1..Cardinality(S) -> S] : \A i, j \in 1..Cardinality(S) : o[i] = o[j] => i = j}

\* SearchIndex::search_exact, the documents being visited in the given order.
search_exact(ix, order, query, limit) ==
    LET query_lower == to_lowercase(query)
        hits == SelectSeq(order, LAMBDA id :
                    contains(to_lowercase(ix.documents[id].name), query_lower))
        results == [i \in 1..Len(hits) |->
                       SearchResult(ix.documents[hits[i]], hits[i],
                                    exact_score(ix.documents[hits[i]].name, query))]
    IN sort_and_take(results, limit)

\* The node ids search_prefix looks at: the posting lists of the words of
\* the query, one after the other.
RECURSIVE posting_lists(_, _)
posting_lists(name_index, words) ==
    IF words = <<>> THEN <<>>
    ELSE (IF words[1] \in DOMAIN name_index THEN name_index[words[1]] ELSE <<>>)
             \o posting_lists(name_index, Tail(words))

\* SearchIndex::search_prefix
search_prefix(ix, query, limit) ==
    LET query_lower == to_lowercase(query)
        ids == posting_lists(ix.name_index, split_whitespace(query_lower))
        hits == SelectSeq(ids, LAMBDA id :
                    /\ id \in DOMAIN ix.documents
                    /\ starts_with(to_lowercase(ix.documents[id].name), query_lower))
        results == [i \in 1..Len(hits) |->
                       SearchResult(ix.documents[hits[i]], hits[i], 95)]
    IN sort_and_take(results, limit)

\* The score search_by_account gives a name that contains the query.
account_score(name, query) ==
    IF to_lowercase(name) = to_lowercase(query) THEN 100
    ELSE IF starts_with(to_lowercase(name), to_lowercase(query)) THEN 90
    ELSE 70

\* SearchIndex::search_by_account
search_by_account(ix, query, account_id, limit) ==
    LET query_lower == to_lowercase(query)
        ids == IF account_id \in DOMAIN ix.account_index
               THEN ix.account_index[account_id] ELSE <<>>
        hits == SelectSeq(ids, LAMBDA id :
                    /\ id \in DOMAIN ix.documents
                    /\ contains(to_lowercase(ix.documents[id].name), query_lower))
        results == [i \in 1..Len(hits) |->
                       SearchResult(ix.documents[hits[i]], hits[i],
                                    account_score(ix.documents[hits[i]].name, query))]
    IN sort_and_take(results, limit)

IndexInit ==
    /\ CoreIdle /\ engine = "index"
    /\ folder = NoFolder /\ throttle = NoThrottle /\ walk = NoWalk
    /\ history = NoHistory /\ indexer = NoIndexer /\ fuzzy = NoFuzzy
    /\ index = new_index

AddDocument ==
    /\ engine = "index" /\ index.last = NoSearch /\ index.adds < MaxAdds
    /\ \E doc \in SearchDocuments :
          index' = [add_document(index, doc) EXCEPT !.adds = index.adds + 1,
                                                    !.last = NoSearch]
    /\ UNCHANGED notIndex

RemoveDocument ==
    /\ engine = "index" /\ index.last = NoSearch
    /\ \E node_id \in NodeIds :
          \E r \in {remove_document(index, node_id)} :
              index' = [r.ix EXCEPT !.last = [NoSearch EXCEPT !.fn = "remove_document",
                                                              !.query = node_id,
                                                              !.ret = r.ret]]
    /\ UNCHANGED notIndex

Clear ==
    /\ engine = "index" /\ index.last = NoSearch
    /\ index' = [clear(index) EXCEPT !.last = NoSearch]
    /\ UNCHANGED notIndex

SearchExact ==
    /\ engine = "index" /\ index.last = NoSearch
    /\ \E query \in Queries, limit \in Limits,
          order \in IterationOrders(DOMAIN index.documents) :
          index' = [index EXCEPT !.last =
                       [NoSearch EXCEPT !.fn = "search_exact", !.query = query,
                                        !.limit = limit,
                                        !.results = search_exact(index, order, query, limit)]]
    /\ UNCHANGED notIndex

SearchPrefix ==
    /\ engine = "index" /\ index.last = NoSearch
    /\ \E query \in Queries, limit \in Limits :
          index' = [index EXCEPT !.last =
                       [NoSearch EXCEPT !.fn = "search_prefix", !.query = query,
                                        !.limit = limit,
                                        !.results = search_prefix(index, query, limit)]]
    /\ UNCHANGED notIndex

SearchByAccount ==
    /\ engine = "index" /\ index.last = NoSearch
    /\ \E query \in Queries, account_id \in AccountIds, limit \in Limits :
          index' = [index EXCEPT !.last =
                       [NoSearch EXCEPT !.fn = "search_by_account", !.query = query,
                                        !.account_id = account_id, !.limit = limit,
                                        !.results = search_by_account(index, query,
                                                                      account_id, limit)]]
    /\ UNCHANGED notIndex

\* The caller is done with the value the last call returned.
DropResults ==
    /\ engine = "index" /\ index.last # NoSearch
    /\ index' = [index EXCEPT !.last = NoSearch]
    /\ UNCHANGED notIndex

IndexNext ==
    \/ AddDocument
    \/ RemoveDocument
    \/ Clear
    \/ SearchExact
    \/ SearchPrefix
    \/ SearchByAccount
    \/ DropResults

SpecIndex == IndexInit /\ [][IndexNext]_vars

\* The three stores of the index.
Stores(ix) == <<ix.documents, ix.name_index, ix.account_index>>

\* C15: in every reachable state of the index and for every document d,
\* also one whose node_id is already stored, add_document(d) followed by
\* remove_document(d.node_id) leaves the document store, the word index and
\* the account index as they were before the add; and removing an id that is
\* not stored returns None and changes nothing.
C15_AddThenRemoveRestores ==
    engine = "index" =>
        /\ \A d \in SearchDocuments :
              Stores(remove_document(add_document(index, d), d.node_id).ix)
                  = Stores(index)
        /\ \A id \in NodeIds \ DOMAIN index.documents :
              /\ remove_document(index, id).ret = Null
              /\ Stores(remove_document(index, id).ix) = Stores(index)

\* C16: after any sequence of add_document, remove_document and clear, for
\* every stored document d its node_id occurs exactly once in the posting
\* list of each whitespace-split token of the lowercased name and exactly
\* once in the posting list of d.account_id, and no posting list is empty.
C16_PostingsExactlyOnce ==
    engine = "index" =>
        LET Count(ids, id) == Cardinality({i \in 1..Len(ids) : ids[i] = id})
            Tokens(d) == split_whitespace(to_lowercase(d.name))
        IN /\ \A id \in DOMAIN index.documents :
                 LET d == index.documents[id]
                 IN /\ \A t \in 1..Len(Tokens(d)) :
                          /\ Tokens(d)[t] \in DOMAIN index.name_index
                          /\ Count(index.name_index[Tokens(d)[t]], id) = 1
                    /\ d.account_id \in DOMAIN index.account_index
                    /\ Count(index.account_index[d.account_id], id) = 1
           /\ \A w \in DOMAIN index.name_index : index.name_index[w] # <<>>
           /\ \A a \in DOMAIN index.account_index : index.account_index[a] # <<>>

\* The score the rule "1.00 if equal, 0.90 if it starts with the query,
\* else 0.70 plus 0.05 iff the first occurrence of the query is immediately
\* preceded by a space" gives, in hundredths.
RuleScore(name, query) ==
    LET n == to_lowercase(name)
        q == to_lowercase(query)
    IN IF n = q THEN 100
       ELSE IF starts_with(n, q) THEN 90
       ELSE 70 + (IF FirstMatch(n, q) > 0 /\ n[FirstMatch(n, q)] = 32 THEN 5 ELSE 0)

\* C17: search_exact(q, limit) returns exactly the documents whose
\* lowercased name contains the lowercased q (up to limit), each once, each
\* with the score of the rule above.
C17_ExactSearchScores ==
    (engine = "index" /\ index.last.fn = "search_exact") =>
        LET rs == index.last.results
            matching == {id \in DOMAIN index.documents :
                            contains(to_lowercase(index.documents[id].name),
                                     to_lowercase(index.last.query))}
        IN /\ Len(rs) = Min(index.last.limit, Cardinality(matching))
           /\ \A i \in 1..Len(rs) :
                 /\ rs[i].node_id \in matching
                 /\ rs[i].score = RuleScore(index.documents[rs[i].node_id].name,
                                            index.last.query)
                 /\ \A j \in 1..Len(rs) : rs[j].node_id = rs[i].node_id => j = i

\* C18: for a non-empty q that is a prefix of the lowercased name of a
\* stored document d (also a q shorter than the first word of the name),
\* search_prefix(q, 10) returns d with score 0.95 when fewer than 10
\* documents match.
C18_PrefixSearchFinds ==
    (engine = "index" /\ index.last.fn = "search_prefix"
       /\ index.last.limit = 10 /\ index.last.query # <<>>) =>
        LET rs == index.last.results
            matching == {id \in DOMAIN index.documents :
                            starts_with(to_lowercase(index.documents[id].name),
                                        to_lowercase(index.last.query))}
        IN Cardinality(matching) < 10 =>
              \A id \in matching :
                  \E i \in 1..Len(rs) : rs[i].node_id = id /\ rs[i].score = 95

\* The score a search function gives a stored document that matches the
\* query, -1 for a document that does not match.
MatchScore(fn, doc, query, account_id) ==
    CASE fn = "search_exact" ->
            IF contains(to_lowercase(doc.name), to_lowercase(query))
            THEN exact_score(doc.name, query) ELSE -1
      [] fn = "search_prefix" ->
            IF starts_with(to_lowercase(doc.name), to_lowercase(query)) THEN 95 ELSE -1
      [] OTHER ->
            IF doc.account_id = account_id
               /\ contains(to_lowercase(doc.name), to_lowercase(query))
            THEN account_score(doc.name, query) ELSE -1

SearchFns == {"search_exact", "search_prefix", "search_by_account"}

\* The stored documents the last search left out.
Excluded ==
    DOMAIN index.documents
        \ {index.last.results[i].node_id : i \in 1..Len(index.last.results)}

\* C19: search_exact, search_prefix and search_by_account return at most
\* limit entries, ordered by non-increasing score, and no matching document
\* that was left out has a strictly higher score than one that was returned.
C19_TopResults ==
    (engine = "index" /\ index.last.fn \in SearchFns) =>
        LET rs == index.last.results
        IN /\ Len(rs) <= index.last.limit
           /\ \A i \in 1..(Len(rs) - 1) : rs[i].score >= rs[i + 1].score
           /\ \A id \in Excluded : \A i \in 1..Len(rs) :
                 MatchScore(index.last.fn, index.documents[id], index.last.query,
                            index.last.account_id) <= rs[i].score

\* A search with limit 1 returned one document and left out a matching
\* document of lower score.
C19_Witness ==
    /\ engine = "index" /\ index.last.fn = "search_exact" /\ index.last.limit = 1
    /\ Len(index.last.results) = 1
    /\ \E id \in Excluded :
          LET s == MatchScore("search_exact", index.documents[id], index.last.query, "")
          IN s >= 0 /\ s < index.last.results[1].score

\* ---------------------------------------------------------------------
\* Display paths (search/path.rs, search/bridge.rs): the walk from a node
\* up its parents, one loop iteration per step.  Both walks read a map
\* from node id to (name, parent_id): PathBuilder its node_cache, the bridge
\* the documents of the SearchIndex.
\* ---------------------------------------------------------------------

WalkIds == {"1", "2", "3"}
\* An id no node has.
UnresolvedId == "9"
\* The names of the nodes, one per node.
NodeNames == ("1" :> "n1" @@ "2" :> "n2" @@ "3" :> "n3")

\* The parent maps: any subset of the nodes, each with no parent, with a
\* parent among the nodes (itself included) or with an unresolved parent.
ParentMaps ==
    UNION {[D -> {Null} \cup {Some(p) : p \in WalkIds \cup {UnresolvedId}}] :
              D \in SUBSET WalkIds}

PathFns == {"build_path", "build_path_from_index"}

\* path_parts.insert(0, name)
insert_front_Append(parts, name) == parts \o <<name>>
insert_front(parts, name) == <<name>> \o parts

\* parts.reverse()
reverse(parts) == [i \in 1..Len(parts) |-> parts[Len(parts) + 1 - i]]

WalkInit ==
    /\ CoreIdle /\ engine = "walk"
    /\ folder = NoFolder /\ throttle = NoThrottle /\ index = NoIndex
    /\ history = NoHistory /\ indexer = NoIndexer /\ fuzzy = NoFuzzy
    /\ \E fn \in PathFns, parents \in ParentMaps,
          node_id \in WalkIds \cup {UnresolvedId} :
          walk = [alloc |-> "live", fn |-> fn, parents |-> parents,
                  node_id |-> node_id, current_id |-> node_id, visited |-> {},
                  parts |-> <<>>, pc |-> "loop", result |-> <<>>]

\* PathBuilder::build_path: one iteration of the while loop; leaving the
\* loop returns the parts collected.
BuildPathStep ==
    /\ engine = "walk" /\ walk.fn = "build_path" /\ walk.pc = "loop"
    /\ IF walk.current_id \notin DOMAIN walk.parents
          \/ walk.current_id \in walk.visited
       THEN walk' = [walk EXCEPT !.pc = "done", !.result = walk.parts]
       ELSE \E parts \in {insert_front(walk.parts, NodeNames[walk.current_id])} :
               \E parent_id \in {walk.parents[walk.current_id]} :
                   walk' = [walk EXCEPT
                       !.visited = walk.visited \cup {walk.current_id},
                       !.parts = parts,
                       !.current_id = IF parent_id.ok THEN parent_id.data ELSE @,
                       !.pc = IF parent_id.ok THEN "loop" ELSE "done",
                       !.result = IF parent_id.ok THEN @ ELSE parts]
    /\ UNCHANGED notWalk

\* build_path_from_index: one iteration of the loop; leaving the loop
\* reverses the parts collected and returns them.
BuildPathFromIndexStep ==
    /\ engine = "walk" /\ walk.fn = "build_path_from_index" /\ walk.pc = "loop"
    /\ IF walk.current_id \in walk.visited
       THEN walk' = [walk EXCEPT !.pc = "done", !.result = reverse(walk.parts)]
       ELSE IF walk.current_id \notin DOMAIN walk.parents
       THEN walk' = [walk EXCEPT !.visited = walk.visited \cup {walk.current_id},
                                 !.pc = "done", !.result = reverse(walk.parts)]
       ELSE \E parts \in {Append(walk.parts, NodeNames[walk.current_id])} :
               \E parent_id \in {walk.parents[walk.current_id]} :
                   walk' = [walk EXCEPT
                       !.visited = walk.visited \cup {walk.current_id},
                       !.parts = parts,
                       !.current_id = IF parent_id.ok THEN parent_id.data ELSE @,
                       !.pc = IF parent_id.ok THEN "loop" ELSE "done",
                       !.result = IF parent_id.ok THEN @ ELSE reverse(parts)]
    /\ UNCHANGED notWalk

WalkNext ==
    \/ BuildPathStep
    \/ BuildPathFromIndexStep

\* The loop runs on one thread and keeps running until it leaves.
SpecWalk == WalkInit /\ [][WalkNext]_vars /\ WF_vars(WalkNext)

\* The node a component of the path names.
NodeOf(name) == CHOOSE id \in WalkIds : NodeNames[id] = name

\* What the finished walk returned: no node twice, no more components than
\* nodes, every component the parent of the next, the start node last.
PathOk ==
    LET r == walk.result
    IN /\ \A i, j \in 1..Len(r) : r[i] = r[j] => i = j
       /\ Len(r) <= Cardinality(DOMAIN walk.parents)
       /\ \A i \in 1..Len(r) : NodeOf(r[i]) \in DOMAIN walk.parents
       /\ \A i \in 1..(Len(r) - 1) :
             walk.parents[NodeOf(r[i + 1])] = Some(NodeOf(r[i]))
       /\ walk.node_id \in DOMAIN walk.parents
             => (r # <<>> /\ r[Len(r)] = NodeNames[walk.node_id])

\* C20: build_path and build_path_from_index terminate for every parent
\* map, with cycles, self-parents and unresolved parents, and the path they
\* return holds each node at most once, has at most as many components as
\* there are nodes, lists the ancestors root-first and ends with the name of
\* the start node when that node exists.
C20_PathWalkTerminates ==
    /\ <>(engine = "walk" /\ walk.pc = "done")
    /\ [](engine = "walk" /\ walk.pc = "done" => PathOk)

\* A walk of build_path over a cycle of three nodes has finished.
C20_Witness ==
    /\ engine = "walk" /\ walk.pc = "done" /\ walk.fn = "build_path"
    /\ Len(walk.result) = 3
    /\ walk.parents[NodeOf(walk.result[1])] = Some(walk.node_id)

\* ---------------------------------------------------------------------
\* Search history (search/history.rs): SearchHistory::new(max_history),
\* without a persistence path.  An entry keeps its query and the ordinal
\* of the record_search call that made it (timestamp, result_count and
\* scope are stored and never read back by these operations).
\* ---------------------------------------------------------------------

\* The largest capacity, and the record_search calls of one behaviour.
MaxHistory == 2
MaxRecords == 4

HistoryQueries == {"document", "pdf"}
PopularLimits == {1, 5}

NoHistoryCall == [op |-> "none", query |-> "", limit |-> 0, popular |-> <<>>]

\* while self.history.len() > self.max_history { self.history.pop_back(); }
trim_KeepOneMore(h, max_history) == SubSeq(h, 1, Min(Len(h), max_history + 1))
trim(h, max_history) == SubSeq(h, 1, Min(Len(h), max_history))

\* SearchHistory::record_search
record_search(h, query) ==
    [h EXCEPT
        !.history = trim(<<[query |-> query, seq |-> h.records + 1]>> \o h.history,
                         h.max_history),
        !.query_counts = [q \in DOMAIN h.query_counts \cup {query} |->
                             IF q = query
                             THEN (IF q \in DOMAIN h.query_counts
                                   THEN h.query_counts[q] ELSE 0) + 1
                             ELSE h.query_counts[q]]]

\* entries.sort_by(|a, b| b.1.cmp(a.1)): a stable sort, highest count first.
RECURSIVE sort_by_count(_)
sort_by_count(es) ==
    IF es = <<>> THEN <<>>
    ELSE LET rest == sort_by_count(Tail(es))
             k == Cardinality({i \in 1..Len(rest) : rest[i].count > es[1].count})
         IN SubSeq(rest, 1, k) \o <<es[1]>> \o SubSeq(rest, k + 1, Len(rest))

\* SearchHistory::get_popular, the counts being visited in the given order.
get_popular(h, order, limit) ==
    LET entries == [i \in 1..Len(order) |->
                       [query |-> order[i], count |-> h.query_counts[order[i]]]]
    IN take(sort_by_count(entries), limit)

HistoryInit ==
    /\ CoreIdle /\ engine = "history"
    /\ folder = NoFolder /\ throttle = NoThrottle /\ index = NoIndex /\ walk = NoWalk
    /\ indexer = NoIndexer /\ fuzzy = NoFuzzy
    /\ \E max_history \in 0..MaxHistory :
          history = [alloc |-> "live", history |-> <<>>, query_counts |-> <<>>,
                     max_history |-> max_history, records |-> 0,
                     since |-> [q \in HistoryQueries |-> 0], last |-> NoHistoryCall]

\* record_search(query, ..); `since` counts the calls for the query since
\* it was last removed or the history cleared.
RecordSearch ==
    /\ engine = "history" /\ history.records < MaxRecords
    /\ \E query \in HistoryQueries :
          history' = [record_search(history, query) EXCEPT
                         !.records = @ + 1,
                         !.since[query] = @ + 1,
                         !.last = [NoHistoryCall EXCEPT !.op = "record_search",
                                                        !.query = query]]
    /\ UNCHANGED notHistory

\* SearchHistory::remove
HistoryRemove ==
    /\ engine = "history"
    /\ \E query \in HistoryQueries :
          history' = [history EXCEPT
                         !.history = SelectSeq(@, LAMBDA e : e.query # query),
                         !.query_counts = [q \in DOMAIN @ \ {query} |-> @[q]],
                         !.since[query] = 0,
                         !.last = [NoHistoryCall EXCEPT !.op = "remove", !.query = query]]
    /\ UNCHANGED notHistory

\* SearchHistory::clear
HistoryClear ==
    /\ engine = "history"
    /\ history' = [history EXCEPT
                      !.history = <<>>, !.query_counts = <<>>,
                      !.since = [q \in HistoryQueries |-> 0],
                      !.last = [NoHistoryCall EXCEPT !.op = "clear"]]
    /\ UNCHANGED notHistory

\* SearchHistory::get_popular
GetPopular ==
    /\ engine = "history"
    /\ \E limit \in PopularLimits, order \in IterationOrders(DOMAIN history.query_counts) :
          history' = [history EXCEPT
                         !.last = [NoHistoryCall EXCEPT
                                      !.op = "get_popular", !.limit = limit,
                                      !.popular = get_popular(history, order, limit)]]
    /\ UNCHANGED notHistory

HistoryNext ==
    \/ RecordSearch
    \/ HistoryRemove
    \/ HistoryClear
    \/ GetPopular

SpecHistory == HistoryInit /\ [][HistoryNext]_vars

\* C21: after any sequence of record_search, remove and clear the deque
\* holds at most max_history entries, most recent first, the query recorded
\* last being first when max_history >= 1; and get_popular lists the
\* queries by non-increasing count, the count of a query being the number
\* of record_search calls for it since it was last removed or the history
\* cleared.
C21_HistoryBoundedAndCounted ==
    engine = "history" =>
        LET h == history.history
            p == history.last.popular
        IN /\ Len(h) <= history.max_history
           /\ \A i, j \in 1..Len(h) : i < j => h[i].seq > h[j].seq
           /\ (history.last.op = "record_search" /\ history.max_history >= 1)
                 => (h # <<>> /\ h[1].query = history.last.query
                              /\ h[1].seq = history.records)
           /\ history.last.op = "get_popular" =>
                 /\ \A i \in 1..(Len(p) - 1) : p[i].count >= p[i + 1].count
                 /\ \A i \in 1..Len(p) :
                       /\ p[i].count = history.since[p[i].query]
                       /\ p[i].count >= 1
                       /\ \A j \in 1..Len(p) : p[j].query = p[i].query => j = i
                 /\ Len(p) = Min(history.last.limit,
                                 Cardinality({q \in HistoryQueries : history.since[q] >= 1}))

\* get_popular listed two queries, the first with the higher count, the
\* deque being full and holding fewer entries than were recorded.
C21_Witness ==
    /\ engine = "history" /\ history.last.op = "get_popular"
    /\ Len(history.last.popular) = 2
    /\ history.last.popular[1].count > history.last.popular[2].count
    /\ Len(history.history) = history.max_history
    /\ history.max_history >= 1
    /\ history.records > history.max_history

\* ---------------------------------------------------------------------
\* Incremental indexer (search/incremental.rs): a SearchIndex with the set
\* of processed ids and the set of changed ids.
\* ---------------------------------------------------------------------

\* The longest change list, and the apply_changes calls of one behaviour.
MaxChanges == 2
MaxApplies == 2

IndexerDocuments == [node_id : NodeIds, account_id : {"acc1"}, name : {<<65, 66>>}]

\* DocumentChange
DocumentChanges ==
    [kind : {"Added", "Modified"}, doc : IndexerDocuments, node_id : {""}]
        \cup [kind : {"Removed"}, doc : {Null}, node_id : NodeIds]

ChangeLists == UNION {[1..n -> DocumentChanges] : n \in 0..MaxChanges}

\* IncrementalIndexer::new
new_incremental ==
    [alloc |-> "live", kind |-> "incremental", index |-> new_index,
     processed_ids |-> {}, changed_ids |-> {}, applies |-> 0, last |-> "none"]

\* One arm of the match in apply_changes.
apply_change(ind, change) ==
    CASE change.kind = "Added" ->
            [ind EXCEPT !.processed_ids = @ \cup {change.doc.node_id},
                        !.index = add_document(@, change.doc)]
      [] change.kind = "Modified" ->
            [ind EXCEPT !.index = add_document(
                            remove_document(@, change.doc.node_id).ix, change.doc)]
      [] OTHER ->
            [ind EXCEPT !.processed_ids = @ \ {change.node_id},
                        !.index = remove_document(@, change.node_id).ix]

\* IncrementalIndexer::apply_changes
RECURSIVE apply_changes(_, _)
apply_changes(ind, changes) ==
    IF changes = <<>> THEN [ind EXCEPT !.changed_ids = {}]
    ELSE apply_changes(apply_change(ind, changes[1]), Tail(changes))

IncrementalInit ==
    /\ CoreIdle /\ engine = "incremental"
    /\ folder = NoFolder /\ throttle = NoThrottle /\ index = NoIndex /\ walk = NoWalk
    /\ history = NoHistory /\ fuzzy = NoFuzzy
    /\ indexer = new_incremental

\* IncrementalIndexer::mark_changed
MarkChanged ==
    /\ engine = "incremental"
    /\ \E node_id \in NodeIds :
          indexer' = [indexer EXCEPT !.changed_ids = @ \cup {node_id},
                                     !.last = "mark_changed"]
    /\ UNCHANGED notIndexer

ApplyChanges ==
    /\ engine = "incremental" /\ indexer.applies < MaxApplies
    /\ \E changes \in ChangeLists :
          \E r \in {apply_changes(indexer, changes)} :
              indexer' = [r EXCEPT !.applies = @ + 1, !.last = "apply_changes"]
    /\ UNCHANGED notIndexer

IncrementalNext ==
    \/ MarkChanged
    \/ ApplyChanges

SpecIncremental == IncrementalInit /\ [][IncrementalNext]_vars

\* C22: after apply_changes, for any list of Added, Modified and Removed
\* records, processed_count() equals inner().len(), the processed ids being
\* the ids of the documents in the live index (one introduced by a Modified
\* record included), and has_pending_changes() is false.
C22_ProcessedMatchesIndex ==
    (engine = "incremental" /\ indexer.last = "apply_changes") =>
        /\ Cardinality(indexer.processed_ids)
              = Cardinality(DOMAIN indexer.index.documents)
        /\ indexer.processed_ids = DOMAIN indexer.index.documents
        /\ indexer.changed_ids = {}

\* ---------------------------------------------------------------------
\* Batch indexer (search/batch.rs): a SearchIndex, the documents waiting
\* in the current batch and the count of documents indexed.
\* ---------------------------------------------------------------------

\* The largest configured batch size, the longest slice passed to
\* add_documents, and the calls of one behaviour.
MaxBatchSize == 3
MaxDocs == 2
MaxBatchCalls == 3

DocLists == UNION {[1..n -> IndexerDocuments] : n \in 0..MaxDocs}

\* BatchIndexer::new
new_batch(batch_size) ==
    [alloc |-> "live", kind |-> "batch", index |-> new_index,
     batch_size |-> batch_size, current_batch |-> <<>>, total_indexed |-> 0,
     calls |-> 0, last |-> "none", docs |-> <<>>, total_before |-> 0]

RECURSIVE add_all(_, _)
add_all(ix, docs) ==
    IF docs = <<>> THEN ix ELSE add_all(add_document(ix, docs[1]), Tail(docs))

\* BatchIndexer::flush
flush(b) ==
    IF b.current_batch = <<>> THEN b
    ELSE [b EXCEPT !.index = add_all(@, b.current_batch),
                   !.total_indexed = @ + Len(b.current_batch),
                   !.current_batch = <<>>]

\* BatchIndexer::add_document
batch_add_document(b, doc) ==
    LET pushed == [b EXCEPT !.current_batch = Append(@, doc)]
    IN IF Len(pushed.current_batch) >= b.batch_size THEN flush(pushed) ELSE pushed

\* BatchIndexer::add_documents
RECURSIVE add_documents(_, _)
add_documents(b, docs) ==
    IF docs = <<>> THEN b
    ELSE add_documents(batch_add_document(b, docs[1]), Tail(docs))

BatchInit ==
    /\ CoreIdle /\ engine = "batch"
    /\ folder = NoFolder /\ throttle = NoThrottle /\ index = NoIndex /\ walk = NoWalk
    /\ history = NoHistory /\ fuzzy = NoFuzzy
    /\ \E batch_size \in 0..MaxBatchSize : indexer = new_batch(batch_size)

\* add_documents(docs), which returns Ok(()).
BatchAddDocuments ==
    /\ engine = "batch" /\ indexer.calls < MaxBatchCalls
    /\ \E docs \in DocLists :
          \E r \in {add_documents(indexer, docs)} :
              indexer' = [r EXCEPT !.calls = @ + 1, !.last = "add_documents",
                                   !.docs = docs,
                                   !.total_before = indexer.total_indexed]
    /\ UNCHANGED notIndexer

BatchFlush ==
    /\ engine = "batch" /\ indexer.calls < MaxBatchCalls
    /\ indexer' = [flush(indexer) EXCEPT !.calls = @ + 1, !.last = "flush",
                                         !.docs = <<>>,
                                         !.total_before = indexer.total_indexed]
    /\ UNCHANGED notIndexer

BatchNext ==
    \/ BatchAddDocuments
    \/ BatchFlush

SpecBatch == BatchInit /\ [][BatchNext]_vars

\* C23: after add_documents(docs) has returned Ok, for every configured
\* batch_size (one larger than docs.len() included), every document of
\* docs is present in the underlying index and total_indexed() has grown by
\* docs.len().
C23_AddDocumentsIndexesAll ==
    (engine = "batch" /\ indexer.last = "add_documents") =>
        /\ \A i \in 1..Len(indexer.docs) :
              indexer.docs[i].node_id \in DOMAIN indexer.index.documents
        /\ indexer.total_indexed = indexer.total_before + Len(indexer.docs)

\* The largest buffer a caller passes: room for the prefix and a frame.
PrefixLen == HEADER_SIZE + NONCE_SIZE + KEY_SIZE + MAC_SIZE

\* C24: in an upload session that encrypts (should_encrypt set and a
\* 32-byte master key given), the first successful upload_process_chunk
\* call delivers the 12-byte header followed by the wrapped FEK as its own
\* prefix chunk, and no ciphertext frame before it.  Stated for a caller
\* whose buffer has room for the prefix and a frame.
C24_PrefixDeliveredFirst ==
    (/\ engine = "upload" /\ up.should_encrypt /\ up.master_key # <<>>
     /\ call.op = "upload_process_chunk" /\ call.returned /\ IsPositive(call.ret)
     /\ hist.n_success = 1
     /\ Len(call.buffer) >= PrefixLen)
        => /\ up.encryption_context.ok
           /\ SubSeq(call.buffer, 1, HEADER_SIZE)
                = build_header(Len(up.encryption_context.data.wrapped_fek))
           /\ SubSeq(call.buffer, HEADER_SIZE + 1, PrefixLen)
                = up.encryption_context.data.wrapped_fek
           /\ call.frame = <<>>

\* C25: when the frames of one file are passed to a DecryptSession in an
\* order other than ascending index 0, 1, 2, ..., or a frame is repeated or
\* skipped, at least one decrypt_chunk call fails instead of returning
\* plaintext.
C25_OutOfOrderFails ==
    (/\ engine = "none" /\ exp.op = "decrypt_chunk"
     /\ \E i \in 1..Len(exp.frames) : exp.frames[i] # i)
        => exp.failed >= 1

\* The plaintext bytes the last successful upload_process_chunk call read.
LastChunkRead == SubSeq(file_data, up.bytes_read - call.ret.lo + 1, up.bytes_read)

\* C26: in an upload session created with should_encrypt = 1 no
\* upload_process_chunk call delivers raw plaintext file bytes to the
\* caller; with a null master key or one whose length is not 32 no
\* processing call succeeds in delivering a chunk.
C26_NoPlaintextWhenEncrypting ==
    (/\ engine = "upload" /\ up.should_encrypt
     /\ call.op = "upload_process_chunk" /\ call.returned)
        => /\ IsPositive(call.ret) =>
                ~(/\ call.placed = Len(LastChunkRead)
                  /\ SubSeq(call.buffer, 1, call.placed) = LastChunkRead)
           /\ up.master_key = <<>> => ~IsPositive(call.ret)

\* C27: within one upload session at most one EncryptSession (one FEK) is
\* created, for every interleaving of upload_get_header and
\* upload_process_chunk calls; the wrapped FEK a successful
\* upload_get_header call returns unwraps under the master key to the key
\* that encrypted every frame of the session.
C27_OneFekPerSession ==
    (engine = "upload" /\ up.should_encrypt /\ up.master_key # <<>>) =>
        /\ heap.enc_ctx <= 1
        /\ (call.op = "upload_process_chunk" /\ call.returned /\ IsPositive(call.ret))
              => /\ up.encryption_context.ok
                 /\ decrypt_chunk_impl(call.frame, up.encryption_context.data.fek).ok
        /\ (call.op = "upload_get_header" /\ call.ret = ISize(SUCCESS))
              => /\ up.encryption_context.ok
                 /\ unwrap_key(SubSeq(call.fek, 1, call.fek_len), up.master_key)
                      = Some(up.encryption_context.data.fek)

\* C28: when an EncryptSession or a DecryptSession is finalized, also
\* through upload_finalize or download_finalize, the memory that held the
\* 32-byte FEK is overwritten with zeros before it is released.
C28_FekZeroedOnFinalize ==
    (engine \in {"upload", "download"} /\ heap.fek_released.ok)
        => heap.fek_released.data = Repeat(0, KEY_SIZE)


\* The plaintext bytes in the frames of a container that lie between the
\* offsets from and to: every frame carries its payload and a 16-byte tag.
RECURSIVE PlainBytes(_, _, _)
PlainBytes(remote, from, to) ==
    IF from + FRAME_HEADER_SIZE > to THEN 0
    ELSE LET n == FromLe32(SubSeq(remote, from + 5, from + 8))
         IN  (n - MAC_SIZE) + PlainBytes(remote, from + FRAME_HEADER_SIZE + n, to)

\* The plaintext bytes decrypted when the first job.delivered bytes of the
\* container have been handed over.
PlainDecrypted ==
    PlainBytes(enc.data, HEADER_SIZE + FromLe32(SubSeq(enc.data, 9, 12)), job.delivered)

\* C29: in a download session with decryption enabled, after any sequence
\* of successful download_append_chunk calls (and no other call),
\* bytes_written and the bytes value given to the progress callback equal
\* the number of plaintext bytes decrypted so far; the header and the
\* wrapped FEK are not counted.
C29_BytesWrittenIsPlaintext ==
    (/\ engine = "download" /\ dl.alloc = "live"
     /\ dl.should_decrypt /\ dl.decryption_context.ok
     /\ call.op = "download_append_chunk"
     /\ hist.calls > 0 /\ hist.calls = hist.n_success)
        => /\ dl.bytes_written = PlainDecrypted
           /\ call.progress # <<>> => call.progress[1] = PlainDecrypted


\* A download_append_chunk call is made in this step, in a session that
\* decrypts (should_decrypt set, a 32-byte master key stored) and has no
\* DecryptSession yet, with fewer than 12 bytes or fewer than 12 + L bytes,
\* L being the length field at offset 8 of the data; the call is not
\* cancelled and the output file can be created.
ShortFirstChunk ==
    /\ engine = "download" /\ dl.alloc = "live"
    /\ dl.should_decrypt /\ dl.master_key # <<>> /\ ~dl.decryption_context.ok
    /\ call'.op = "download_append_chunk" /\ hist'.calls = hist.calls + 1
    /\ call'.ret \notin {ISize(ERROR_CANCELLED), ISize(ERROR_PERMISSION_DENIED)}
    /\ \/ call'.data_len < HEADER_SIZE
       \/ call'.data_len < HEADER_SIZE
             + FromLe32(SubSeq(Remote, job.delivered + 9, job.delivered + 12))

\* The call returns INVALID_PATH and changes nothing of the session but the
\* lazily opened output file; nothing is written to the file.
ShortFirstChunkRejected ==
    /\ call'.ret = ISize(ERROR_INVALID_PATH)
    /\ call'.progress = <<>>
    /\ dl' = [dl EXCEPT !.output_file = "open"]
    /\ dst'.data = dst.data
    /\ heap'.dec_ctx = heap.dec_ctx

C31_UploadErrorCodes ==
    (engine = "upload" /\ call.returned
     /\ call.op \in {"upload_init", "upload_process_chunk"})
        => /\ call.io = "open_fails" => call.ret = ISize(ERROR_FILE_NOT_FOUND)
           /\ call.io = "read_fails" => call.ret = ISize(ERROR_IO_FAILED)
           /\ (call.op = "upload_process_chunk" /\ hist.cancel_seen
               /\ hist.last = Some(ISize(ERROR_CANCELLED)))
                 => call.ret = ISize(ERROR_CANCELLED)

\* C32: once the cancellation flag is set and stays set, every later
\* processing call of the session (upload_process_chunk,
\* download_append_chunk, download_append_decrypted,
\* cloud_copy_process_chunk, unified_copy_file, for every file size
\* including 0) returns its CANCELLED code, invokes no read, write or
\* progress callback and leaves the session's byte, chunk and file counters
\* unchanged.  Stated for sessions whose flag is set before the first call:
\* every call is then a later call, and the counters were 0.
C32_CancelledShortCircuits ==
    (/\ hist.cancel_when = "before" /\ cancel_flag
     /\ engine \in {"upload", "download", "cloud", "unified"}
     /\ hist.last.ok /\ call.returned)
        => /\ hist.last.data \in CancelledCodes
           /\ call.progress = <<>> /\ ~call.write_invoked /\ IsZero(call.read)
           /\ up.bytes_read = 0 /\ up.chunk_index = 0
           /\ dl.bytes_written = 0
           /\ job.bytes_copied = 0 /\ job.files_processed = 0

(***************************************************************************)
(* copy.rs: one folder_copy_next_file call at the grain of the chunks of   *)
(* copy_single_file, with the cancellation flag set by another thread.     *)
(* The source folder holds one regular file, file_data; dst is its copy.   *)
(***************************************************************************)
\* The sizes of the file: empty, one chunk, and several chunks.
FolderFiles == {[i \in 1..n |-> 65 + (i % 2)] : n \in 0..MaxFileLen}

FolderFileInit ==
    /\ engine = "folder_file"
    /\ file_data \in FolderFiles
    /\ master_key = <<>> /\ enc = NoEnc /\ exp = NoExp /\ heap = NoHeap
    /\ cancel_flag \in BOOLEAN
    /\ dst = NoDst /\ up = NoUpload /\ dl = NoDownload
    /\ job = [NoJob EXCEPT !.alloc = "live", !.total_files = 1,
                           !.total_bytes = Len(file_data)]
    /\ hist = [NoHist EXCEPT !.cancel_when = IF cancel_flag THEN "before" ELSE "never"]
    /\ call = NoCall
    /\ OthersIdle

\* folder_copy_next_file up to the call of copy_next_file_impl
\* (copy.rs:296-318).
FolderCopyNextFilePoll ==
    /\ engine = "folder_file" /\ job.pc = "idle" /\ hist.calls < 2
    /\ IF job.files_processed >= job.total_files
         THEN /\ call' = [NoCall EXCEPT !.op = "folder_copy_next_file",
                                        !.returned = TRUE, !.ret = ISize(0)]
              /\ hist' = [Returned(hist, ISize(0)) EXCEPT !.done = TRUE]
              /\ job' = job
         ELSE IF is_cancelled(cancel_flag)
         THEN /\ call' = [NoCall EXCEPT !.op = "folder_copy_next_file",
                                        !.returned = TRUE,
                                        !.ret = ISize(ERROR_CANCELLED)]
              /\ hist' = Cancelled(hist, ISize(ERROR_CANCELLED))
              /\ job' = job
         ELSE /\ call' = [NoCall EXCEPT !.op = "folder_copy_next_file"]
              /\ hist' = hist
              /\ job' = [job EXCEPT !.pc = "entry"]
    /\ UNCHANGED <<otherVars, file_data, master_key, enc, exp, heap, engine, cancel_flag, dst, up, dl>>

\* copy_next_file_impl at the entry of the file: the cancellation check of
\* the loop over the entries, then File::open and File::create of
\* copy_single_file (copy.rs:335-347, 401-403).
CopyNextFileImplEntry ==
    /\ engine = "folder_file" /\ job.pc = "entry"
    /\ \E io \in {"ok", "open_fails"} :
          IF is_cancelled(cancel_flag)
          THEN /\ io = "ok"
               /\ call' = [call EXCEPT !.returned = TRUE,
                                       !.ret = ISize(ERROR_CANCELLED)]
               /\ hist' = Cancelled(hist, ISize(ERROR_CANCELLED))
               /\ job' = [job EXCEPT !.pc = "idle"]
               /\ dst' = dst
          ELSE IF io = "open_fails"
          THEN /\ call' = [call EXCEPT !.returned = TRUE, !.io = io,
                                       !.ret = ISize(ERROR_IO_FAILED)]
               /\ hist' = Returned(hist, ISize(ERROR_IO_FAILED))
               /\ job' = [job EXCEPT !.pc = "idle"]
               /\ dst' = dst
          ELSE /\ dst' = [exists |-> TRUE, data |-> <<>>]
               /\ hist' = [hist EXCEPT !.creates = @ + 1]
               /\ job' = [job EXCEPT !.pc = "chunk", !.local_file_offset = 0]
               /\ call' = call
    /\ UNCHANGED <<otherVars, file_data, master_key, enc, exp, heap, engine, cancel_flag, up, dl>>

\* One turn of the loop of copy_single_file (copy.rs:409-415): read a
\* chunk, leave at end of file, else write the chunk.  The loop does not
\* look at the flag.  At end of file the writer is flushed and
\* copy_next_file_impl counts the file and returns 1 (copy.rs:350-366).
CopySingleFileChunk ==
    /\ engine = "folder_file" /\ job.pc = "chunk"
    /\ \E io \in {"ok", "read_fails", "write_fails"} :
          LET bytes_read == Min(DEFAULT_CHUNK_SIZE, Len(file_data) - job.local_file_offset)
              chunk      == SubSeq(file_data, job.local_file_offset + 1,
                                   job.local_file_offset + bytes_read)
          IN  IF io = "read_fails" \/ (io = "write_fails" /\ bytes_read > 0)
              THEN /\ call' = [call EXCEPT !.returned = TRUE, !.io = io,
                                           !.ret = ISize(ERROR_IO_FAILED)]
                   /\ hist' = Returned(hist, ISize(ERROR_IO_FAILED))
                   /\ job' = [job EXCEPT !.pc = "idle"]
                   /\ dst' = dst
              ELSE IF bytes_read = 0
              THEN /\ io = "ok"
                   /\ job' = [job EXCEPT !.pc = "idle",
                                         !.bytes_copied = @ + Len(file_data),
                                         !.files_processed = @ + 1]
                   /\ call' = [call EXCEPT
                                 !.returned = TRUE, !.ret = ISize(1),
                                 !.progress = <<job.bytes_copied + Len(file_data),
                                                job.total_bytes,
                                                job.files_processed + 1,
                                                job.total_files>>]
                   /\ hist' = Returned(hist, ISize(1))
                   /\ dst' = dst
              ELSE /\ dst' = [dst EXCEPT !.data = @ \o chunk]
                   /\ job' = [job EXCEPT !.local_file_offset = @ + bytes_read]
                   /\ hist' = Wrote(hist)
                   /\ call' = call
    /\ UNCHANGED <<otherVars, file_data, master_key, enc, exp, heap, engine, cancel_flag, up, dl>>

FolderFileNext ==
    \/ SetCancel
    \/ ClearCancel
    \/ FolderCopyNextFilePoll
    \/ CopyNextFileImplEntry
    \/ CopySingleFileChunk

SpecFolderFile == FolderFileInit /\ [][FolderFileNext]_vars

\* C33: during a folder copy the cancellation flag is polled between the
\* chunks of the file being copied: when the flag is set while
\* folder_copy_next_file copies a multi-chunk file, at most one more chunk
\* of that file is written, and a call in which the flag was set with
\* chunks left to write returns CANCELLED and leaves a partial destination
\* file.
C33_PolledBetweenChunks ==
    (engine = "folder_file" /\ hist.cancel_when = "during")
        => /\ hist.writes_after_cancel <= 1
           /\ (call.returned /\ hist.writes_after_cancel >= 1
               /\ call.ret # ISize(ERROR_IO_FAILED))
                 => (call.ret = ISize(ERROR_CANCELLED) \/ dst.data = file_data)

\* A unified_copy_file call returns in this step.
UnifiedReturns == engine = "unified" /\ ~call.returned /\ call'.returned

\* C34: across successive unified_copy_file calls on one context,
\* bytes_copied is the sum of the bytes whose write callback succeeded; a
\* call that returns a non-negative value has counted its file in
\* files_processed and returns 1 exactly when files_processed is then below
\* total_files, 0 otherwise; a call that returns an error or CANCELLED has
\* not counted its file.
C34_UnifiedCounters ==
    [][/\ engine = "unified" => job'.bytes_copied = hist'.sum_ok
       /\ UnifiedReturns =>
            IF IsNegative(call'.ret)
              THEN job'.files_processed = job.files_processed
              ELSE /\ job'.files_processed = job.files_processed + 1
                   /\ call'.ret = ISize(IF job'.files_processed < job'.total_files
                                          THEN 1 ELSE 0)]_vars

\* C35: after any sequence of unified_copy_file calls on one context,
\* files_processed never exceeds total_files, and the files index handed to
\* the progress callback (files_processed + 1) never exceeds total_files.
C35_FilesProcessedBounded ==
    engine = "unified"
        => /\ job.files_processed <= job.total_files
           /\ (call.op = "unified_copy_file" /\ call.progress # <<>>)
                 => call.progress[3] <= call.progress[4]

\* C36: copy_file_streaming invokes the terminal progress callback (bytes =
\* total, after the read that found end of file) only for a copy that then
\* returns SUCCESS: no call that returns IO_FAILED or CANCELLED has made
\* that report, and when it is made the bytes copied equal the total.
C36_TerminalCallbackMeansSuccess ==
    (engine = "copy" /\ call.op = "copy_file_streaming" /\ call.eof)
        => /\ call.progress = <<job.total_bytes, job.total_bytes>>
           /\ job.bytes_copied = job.total_bytes /\ dst.data = file_data
           /\ call.returned => call.ret = ISize(SUCCESS)

\* C37: for every index state, query q and account a, each document
\* returned by search_by_account(q, a, limit) carries the score that
\* search_exact gives that document for q: 1.00 when equal, 0.90 when the
\* name starts with q, otherwise 0.70 plus the word-boundary bonus.
C37_AccountScoresAsExact ==
    (engine = "index" /\ index.last.fn = "search_by_account")
        => \A i \in DOMAIN index.last.results :
              index.last.results[i].score
                 = exact_score(index.last.results[i].name, index.last.query)

\* SearchIndex::get_by_account: the stored documents of the ids in the
\* account's posting list, in the order of the list.
get_by_account(ix, account_id) ==
    IF account_id \in DOMAIN ix.account_index
    THEN LET ids == SelectSeq(ix.account_index[account_id],
                              LAMBDA id : id \in DOMAIN ix.documents)
         IN  [i \in 1..Len(ids) |-> ix.documents[ids[i]]]
    ELSE <<>>

\* No node_id occurs twice in a sequence of documents or results.
NoRepeats(rs) == \A i, j \in DOMAIN rs : rs[i].node_id = rs[j].node_id => i = j

\* C38: after any sequence of add_document, remove_document and clear, also
\* one that adds a stored node_id again under another account, every result
\* of search_by_account(q, a, limit) and every document of get_by_account(a)
\* has account_id a and appears at most once.
C38_AccountResultsBelong ==
    engine = "index"
        => /\ index.last.fn = "search_by_account"
                => /\ \A i \in DOMAIN index.last.results :
                         index.last.results[i].account_id = index.last.account_id
                   /\ NoRepeats(index.last.results)
           /\ \A a \in AccountIds :
                 /\ \A i \in DOMAIN get_by_account(index, a) :
                       get_by_account(index, a)[i].account_id = a
                 /\ NoRepeats(get_by_account(index, a))

\* The node_ids stored in the posting lists of a map from keys to lists.
PostedIds(m) == UNION {{m[k][i] : i \in DOMAIN m[k]} : k \in DOMAIN m}

\* C39: after any sequence of add_document, remove_document and clear, also
\* one that adds a stored node_id again with another name or account and
\* then removes it, every node_id in a posting list of the word index or of
\* the account index is the id of a document in the store.
C39_NoDanglingPostings ==
    engine = "index"
        => /\ PostedIds(index.name_index) \subseteq DOMAIN index.documents
           /\ PostedIds(index.account_index) \subseteq DOMAIN index.documents

\* Fuzzy matching (search/fuzzy.rs): jaro_winkler_similarity on two strings
\* of code points.  Its window arithmetic is on usize, kept here modulo
\* 2^UsizeBits: a build with overflow checks (cargo's dev profile) panics
\* when a usize result leaves the range, a build without them (the release
\* profile) wraps around.  The similarity is kept as the exact fraction
\* num / den of the f64 expression.
UsizeBits == 16
UsizeModulus == 2 ^ UsizeBits
MaxStrLen == 4
FuzzyStrings == UNION {[1..n -> {97, 98}] : n \in 0..MaxStrLen}

Similarity(num, den) ==
    [panicked |-> FALSE, underflow |-> FALSE, num |-> num, den |-> den]

\* let match_distance = max(s1_len, s2_len) / 2 - 1;
match_distance(s1_len, s2_len) == (Max(s1_len, s2_len) \div 2) - 1

\* The loop that finds the matches, from index i on (indices from 0).
RECURSIVE find_matches(_, _, _, _, _)
find_matches(s1, s2, distance, i, m) ==
    IF i >= Len(s1) THEN m
    ELSE LET start == IF i > distance THEN i - distance ELSE 0
             end == Min((i + distance + 1) % UsizeModulus, Len(s2))
             hits == {j \in start..(end - 1) :
                         ~m.s2_matches[j + 1] /\ s1[i + 1] = s2[j + 1]}
         IN  IF hits = {} THEN find_matches(s1, s2, distance, i + 1, m)
             ELSE LET j == CHOOSE j \in hits : \A h \in hits : j <= h
                  IN  find_matches(s1, s2, distance, i + 1,
                          [s1_matches |-> [m.s1_matches EXCEPT ![i + 1] = TRUE],
                           s2_matches |-> [m.s2_matches EXCEPT ![j + 1] = TRUE],
                           matches |-> m.matches + 1])

\* The loop that counts the transpositions, from index i of s1 and index k
\* of s2 on.
RECURSIVE count_transpositions(_, _, _, _, _, _)
count_transpositions(s1, s2, m, i, k, transpositions) ==
    IF i >= Len(s1) THEN transpositions
    ELSE IF ~m.s1_matches[i + 1]
         THEN count_transpositions(s1, s2, m, i + 1, k, transpositions)
         ELSE LET k2 == CHOOSE n \in k..(Len(s2) - 1) :
                            /\ m.s2_matches[n + 1]
                            /\ \A h \in k..(n - 1) : ~m.s2_matches[h + 1]
              IN  count_transpositions(s1, s2, m, i + 1, k2 + 1,
                      IF s1[i + 1] # s2[k2 + 1] THEN transpositions + 1
                                                ELSE transpositions)

\* The common prefix of the two strings, up to 4 characters.
RECURSIVE common_prefix(_, _, _)
common_prefix(s1, s2, n) ==
    IF n < Min(4, Min(Len(s1), Len(s2))) /\ s1[n + 1] = s2[n + 1]
    THEN common_prefix(s1, s2, n + 1)
    ELSE n

\* jaro_winkler_similarity(s1, s2) in a build with or without overflow
\* checks.  jaro = (m/|s1| + m/|s2| + (m - t/2)/m) / 3 is jaro_num / jaro_den
\* and the result jaro + prefix * 0.1 * (1 - jaro) is
\* (10 * jaro_num + prefix * (jaro_den - jaro_num)) / (10 * jaro_den).
jaro_winkler_similarity(s1, s2, overflow_checks) ==
    IF s1 = s2 THEN Similarity(1, 1)
    ELSE IF Len(s1) = 0 \/ Len(s2) = 0 THEN Similarity(0, 1)
    ELSE LET d == match_distance(Len(s1), Len(s2))
             distance == d % UsizeModulus
             m == find_matches(s1, s2, distance, 0,
                      [s1_matches |-> [i \in 1..Len(s1) |-> FALSE],
                       s2_matches |-> [i \in 1..Len(s2) |-> FALSE],
                       matches |-> 0])
             t == count_transpositions(s1, s2, m, 0, 0, 0)
             jaro_num == 2 * m.matches * m.matches * (Len(s1) + Len(s2))
                           + (2 * m.matches - t) * Len(s1) * Len(s2)
             jaro_den == 6 * m.matches * Len(s1) * Len(s2)
             prefix == common_prefix(s1, s2, 0)
         IN  IF d < 0 /\ overflow_checks
             THEN [panicked |-> TRUE, underflow |-> TRUE, num |-> 0, den |-> 1]
             ELSE [IF m.matches = 0 THEN Similarity(0, 1)
                   ELSE Similarity(10 * jaro_num + prefix * (jaro_den - jaro_num),
                                   10 * jaro_den)
                   EXCEPT !.underflow = d < 0]

FuzzyInit ==
    /\ CoreIdle /\ engine = "fuzzy"
    /\ folder = NoFolder /\ throttle = NoThrottle /\ index = NoIndex /\ walk = NoWalk
    /\ history = NoHistory /\ indexer = NoIndexer
    /\ \E s1 \in FuzzyStrings, s2 \in FuzzyStrings, overflow_checks \in BOOLEAN :
          fuzzy = [alloc |-> "live", s1 |-> s1, s2 |-> s2,
                   overflow_checks |-> overflow_checks, returned |-> FALSE,
                   result |-> Similarity(0, 1)]

\* The call jaro_winkler_similarity(s1, s2).
JaroWinklerSimilarity ==
    /\ engine = "fuzzy" /\ ~fuzzy.returned
    /\ fuzzy' = [fuzzy EXCEPT
                    !.returned = TRUE,
                    !.result = jaro_winkler_similarity(fuzzy.s1, fuzzy.s2,
                                                       fuzzy.overflow_checks)]
    /\ UNCHANGED notFuzzy

FuzzyNext == JaroWinklerSimilarity
SpecFuzzy == FuzzyInit /\ [][FuzzyNext]_vars

\* C40: for every pair of strings, two different one-character strings
\* included, jaro_winkler_similarity computes its match window
\* max(|s1|, |s2|) / 2 - 1 without unsigned underflow and returns a
\* similarity between 0.0 and 1.0, which is 0.0 for two different
\* one-character strings.
C40_WindowWithoutUnderflow ==
    (engine = "fuzzy" /\ fuzzy.returned)
        => /\ ~fuzzy.result.underflow
           /\ ~fuzzy.result.panicked
           /\ 0 <= fuzzy.result.num /\ fuzzy.result.num <= fuzzy.result.den
           /\ (Len(fuzzy.s1) = 1 /\ Len(fuzzy.s2) = 1 /\ fuzzy.s1 # fuzzy.s2)
                 => fuzzy.result.num = 0

=============================================================================
